---- MODULE Spec2Model ----
(***************************************************************************)
(* Call resolution and entry-point synthesis of the GLSL front end         *)
(* (src/front/glsl/functions.rs): registration of prototypes and           *)
(* definitions, overload resolution of user-function calls, propagation of *)
(* stage-interface usage through the call graph and synthesis of the entry *)
(* functions.                                                              *)
(*                                                                         *)
(* Arenas are sequences; a handle is the 1-based position of its element,  *)
(* which is what Handle::index() + 1 is in the source.                     *)
(***************************************************************************)
EXTENDS Integers, Sequences, FiniteSets, TLC

VARIABLES
    types,             \* module.types: arena of TypeInner
    functions,         \* module.functions: arena of Function
    lookup_function,   \* name -> Vec<FunctionDeclaration>
    function_arg_use,  \* Vec<Vec<EntryArgUse>>, one vector per function
    entries,           \* Vec<(name, stage, Handle<Function>)>
    entry_args,        \* stage-interface arguments, collected before this stage
    module_entry_points, \* module.entry_points: Vec<EntryPoint>
    pc,                \* "registering" until add_entry_points runs, "propagating"
                       \* during its usage pass, then "done"
    ret,               \* the last operation: its inputs and what it returned
    ctx,               \* the Context and the body of the function being lowered
    walk               \* add_entry_points' local usage table and its place in the pass

vars == <<types, functions, lookup_function, function_arg_use, entries,
          entry_args, module_entry_points, pc, ret, ctx, walk>>

\* ------------------------------------------------------------------ bounds
MaxFunctions == 3      \* functions registered in one module
MaxParams == 2         \* parameters of a declaration, arguments of a call
MaxEntryArgs == 2      \* stage-interface arguments

\* ------------------------------------------------------------------ values
None == 0              \* Option::None where Some(h) is a handle h >= 1

Min(a, b) == IF a < b THEN a ELSE b

\* TypeInner, the variants the front end's scalar_kind() tells apart.
Scalar(kind, width) == [tag |-> "Scalar", kind |-> kind, width |-> width, size |-> 1]
Vector(size, kind, width) == [tag |-> "Vector", kind |-> kind, width |-> width, size |-> size]
Sampler == [tag |-> "Sampler", kind |-> "NoKind", width |-> 0, size |-> 0]
Struct(members, span) == [tag |-> "Struct", members |-> members, span |-> span]
Matrix(columns, rows, width) ==
    [tag |-> "Matrix", columns |-> columns, rows |-> rows, width |-> width]
Image(dim, arrayed) == [tag |-> "Image", dim |-> dim, arrayed |-> arrayed]

\* TypeInner::scalar_kind(): Some(kind) for scalars and vectors, None otherwise.
scalar_kind(inner) ==
    IF inner.tag \in {"Scalar", "Vector"} THEN inner.kind ELSE "NoKind"

\* type_power(kind): the conversion rank, None (-1) for a kind without one.
type_power(kind) ==
    CASE kind = "Sint" -> 0
      [] kind = "Uint" -> 1
      [] kind = "Float" -> 2
      [] OTHER -> -1

\* Option::and_then(type_power) over scalar_kind().
power_of(inner) ==
    IF scalar_kind(inner) = "NoKind" THEN -1 ELSE type_power(scalar_kind(inner))

\* TypeInner::span(): the layout size in bytes.
span_of(inner) ==
    CASE inner.tag = "Scalar" -> inner.width
      [] inner.tag = "Vector" -> inner.size * inner.width
      [] inner.tag = "Struct" -> inner.span
      [] OTHER -> 0

\* The types registered before any function is: handle 4 is a second type with
\* the inner of handle 2 (the arena appends without deduplication); 7 and 8 are
\* mat2 and mat3, 9 and 10 a 2-D image and a 2-D image array, 11 a struct of
\* one float.
InitTypes ==
    << Scalar("Sint", 4), Scalar("Float", 4), Scalar("Bool", 1),
       Scalar("Float", 4), Vector(2, "Float", 4), Sampler,
       Matrix(2, 2, 4), Matrix(3, 3, 4), Image("D2", FALSE), Image("D2", TRUE),
       Struct(<<[name |-> 0, ty |-> 2, binding |-> 0, offset |-> 0]>>, 4) >>

\* options.entry_points: entry-point name -> shader stage.
entry_points == [n \in {"main", "vs_main"} |-> IF n = "main" THEN "Fragment" ELSE "Vertex"]

\* ------------------------------------------------------------------ statements
Return == [kind |-> "Return", value |-> None]
Call(function) == [kind |-> "Call", function |-> function, arguments |-> <<>>, result |-> None]
\* A compound statement: Block = one block, If = accept and reject, Switch = the
\* case bodies then default, Loop = body and continuing.
Compound(kind, blocks) == [kind |-> kind, blocks |-> blocks]

IsCompound(stmt) == stmt.kind \in {"Block", "If", "Switch", "Loop"}

\* proc::ensure_block_returns: a body whose last statement can fall off the end
\* gets a Return appended (branches of a trailing If/Switch/Block are completed
\* in place).
RECURSIVE ensure_block_returns(_)
ensure_block_returns(block) ==
    IF block = <<>> THEN <<Return>>
    ELSE LET last == block[Len(block)] IN
         IF last.kind \in {"Block", "If", "Switch"}
         THEN [block EXCEPT ![Len(block)] =
                  Compound(last.kind,
                           [i \in 1..Len(last.blocks) |-> ensure_block_returns(last.blocks[i])])]
         ELSE IF last.kind \in {"Return", "Emit", "Break", "Continue", "Kill"}
         THEN block
         ELSE Append(block, Return)

\* ------------------------------------------------------------------ registration
\* same_parameters comparing the type handles instead of the types.
same_parameters_by_handle(new_parameters, old_parameters) ==
    new_parameters = old_parameters

\* The inner loops of add_function and add_prototype: every parameter type of
\* the new declaration has the same TypeInner as the old one's.
same_parameters(new_parameters, old_parameters) ==
    /\ Len(new_parameters) = Len(old_parameters)
    /\ \A i \in 1..Len(new_parameters) :
          types[new_parameters[i]] = types[old_parameters[i]]

\* find_declaration looking at the first declaration of the overload set only.
find_declaration_first_only(declarations, parameters, i) ==
    IF declarations # <<>> /\ same_parameters(parameters, declarations[1].parameters)
    THEN 1 ELSE None

\* find_declaration that passes over the declarations not yet defined.
find_declaration_defined_only(declarations, parameters, i) ==
    LET same == {k \in i..Len(declarations) :
                    /\ declarations[k].defined
                    /\ same_parameters(parameters, declarations[k].parameters)}
    IN IF same = {} THEN None ELSE CHOOSE k \in same : \A m \in same : k <= m

\* The 'outer loop of add_function and add_prototype: the first declaration
\* with the same parameter types, None when the loop runs to its end.
RECURSIVE find_declaration(_, _, _)
find_declaration(declarations, parameters, i) ==
    IF i > Len(declarations) THEN None
    ELSE IF same_parameters(parameters, declarations[i].parameters) THEN i
    ELSE find_declaration(declarations, parameters, i + 1)

\* lookup_function.entry(name).or_default()
entry_or_default(name) ==
    IF name \in DOMAIN lookup_function THEN lookup_function[name] ELSE <<>>

with_declarations(name, declarations) ==
    [n \in (DOMAIN lookup_function) \cup {name} |->
        IF n = name THEN declarations ELSE lookup_function[n]]

Result(op, name, parameters, status, msg, handle) ==
    [op |-> op, name |-> name, parameters |-> parameters, status |-> status,
     msg |-> msg, handle |-> handle, decl |-> None, use |-> <<>>]

add_function(function, name, parameters, qualifiers) ==
    LET fn == [function EXCEPT !.body = ensure_block_returns(@)]
        handle == Len(functions) + 1
    IN
    /\ pc = "registering"
    /\ IF name \in DOMAIN entry_points
       THEN /\ Len(functions) < MaxFunctions
            /\ functions' = Append(functions, fn)
            /\ entries' = Append(entries, <<name, entry_points[name], handle>>)
            /\ function_arg_use' = Append(function_arg_use, <<>>)
            /\ ret' = Result("add_function", name, parameters, "Ok", <<>>, handle)
            /\ UNCHANGED lookup_function
       ELSE LET void == (function.result = None)
                declarations == entry_or_default(name)
                i == find_declaration(declarations, parameters, 1)
            IN
            IF i # None
            THEN IF declarations[i].defined
                 THEN /\ ret' = Result("add_function", name, parameters, "Err",
                                       <<"Function already defined">>, None)
                      /\ UNCHANGED <<functions, lookup_function, function_arg_use, entries>>
                 ELSE /\ lookup_function' =
                            with_declarations(name,
                               [declarations EXCEPT ![i].defined = TRUE,
                                                    ![i].qualifiers = qualifiers])
                      /\ functions' = [functions EXCEPT ![declarations[i].handle] = fn]
                      /\ ret' = Result("add_function", name, parameters, "Ok", <<>>,
                                       declarations[i].handle)
                      /\ UNCHANGED <<function_arg_use, entries>>
            ELSE /\ Len(functions) < MaxFunctions
                 /\ function_arg_use' = Append(function_arg_use, <<>>)
                 /\ functions' = Append(functions, fn)
                 /\ lookup_function' =
                       with_declarations(name,
                          Append(declarations,
                                 [parameters |-> parameters, qualifiers |-> qualifiers,
                                  handle |-> handle, defined |-> TRUE, void |-> void]))
                 /\ ret' = Result("add_function", name, parameters, "Ok", <<>>, handle)
                 /\ UNCHANGED entries
    /\ UNCHANGED <<types, entry_args, module_entry_points, pc, ctx, walk>>

\* add_prototype without the push of the prototype's usage vector.
add_prototype_no_push(function, name, parameters, qualifiers) ==
    LET void == (function.result = None)
        declarations == entry_or_default(name)
        i == find_declaration(declarations, parameters, 1)
        handle == Len(functions) + 1
    IN
    /\ pc = "registering"
    /\ IF i # None
       THEN /\ ret' = Result("add_prototype", name, parameters, "Err",
                             <<"Prototype already defined">>, None)
            /\ UNCHANGED <<functions, lookup_function>>
       ELSE /\ Len(functions) < MaxFunctions
            /\ functions' = Append(functions, function)
            /\ lookup_function' =
                  with_declarations(name,
                     Append(declarations,
                            [parameters |-> parameters, qualifiers |-> qualifiers,
                             handle |-> handle, defined |-> FALSE, void |-> void]))
            /\ ret' = Result("add_prototype", name, parameters, "Ok", <<>>, None)
    /\ UNCHANGED <<types, function_arg_use, entries, entry_args, module_entry_points, pc,
                   ctx, walk>>

add_prototype(function, name, parameters, qualifiers) ==
    LET void == (function.result = None)
        declarations == entry_or_default(name)
        i == find_declaration(declarations, parameters, 1)
        handle == Len(functions) + 1
    IN
    /\ pc = "registering"
    /\ IF i # None
       THEN /\ ret' = Result("add_prototype", name, parameters, "Err",
                             <<"Prototype already defined">>, None)
            /\ UNCHANGED <<functions, lookup_function, function_arg_use>>
       ELSE /\ Len(functions) < MaxFunctions
            /\ function_arg_use' = Append(function_arg_use, <<>>)
            /\ functions' = Append(functions, function)
            /\ lookup_function' =
                  with_declarations(name,
                     Append(declarations,
                            [parameters |-> parameters, qualifiers |-> qualifiers,
                             handle |-> handle, defined |-> FALSE, void |-> void]))
            /\ ret' = Result("add_prototype", name, parameters, "Ok", <<>>, None)
    /\ UNCHANGED <<types, entries, entry_args, module_entry_points, pc, ctx, walk>>

\* ------------------------------------------------------------------ function_call
\* candidate without the test of the conversion ranks: any declaration with
\* the right parameter count is kept.
candidate_unranked(decl, args) ==
    IF Len(args) # Len(decl.parameters) THEN "skip"
    ELSE IF \A i \in 1..Len(args) : types[decl.parameters[i]] = args[i]
         THEN "exact"
    ELSE "viable"

\* One declaration against the resolved argument types (the body of the 'outer
\* loop): "skip" = continue, "exact" = every type equal, "viable" = every
\* differing pair has two conversion ranks and the parameter's is not lower.
candidate(decl, args) ==
    IF Len(args) # Len(decl.parameters) THEN "skip"
    ELSE IF \E i \in 1..Len(args) :
               /\ types[decl.parameters[i]] # args[i]
               /\ \/ power_of(types[decl.parameters[i]]) = -1
                  \/ power_of(args[i]) = -1
                  \/ power_of(types[decl.parameters[i]]) < power_of(args[i])
         THEN "skip"
    ELSE IF \A i \in 1..Len(args) : types[decl.parameters[i]] = args[i]
         THEN "exact"
    ELSE "viable"

\* scan_declarations whose exact match leaves the ambiguity flag as it is.
RECURSIVE scan_declarations_keep_flag(_, _, _, _, _)
scan_declarations_keep_flag(declarations, args, i, maybe_decl, ambiguous) ==
    IF i > Len(declarations)
    THEN [decl |-> maybe_decl, ambiguous |-> ambiguous]
    ELSE LET c == candidate(declarations[i], args) IN
         IF c = "skip"
         THEN scan_declarations_keep_flag(declarations, args, i + 1, maybe_decl, ambiguous)
         ELSE IF c = "exact"
         THEN [decl |-> i, ambiguous |-> ambiguous]
         ELSE IF maybe_decl # None
         THEN scan_declarations_keep_flag(declarations, args, i + 1, maybe_decl, TRUE)
         ELSE scan_declarations_keep_flag(declarations, args, i + 1, i, ambiguous)

\* scan_declarations that keeps the last non-exact candidate and never flags
\* an ambiguity.
RECURSIVE scan_declarations_last_wins(_, _, _, _, _)
scan_declarations_last_wins(declarations, args, i, maybe_decl, ambiguous) ==
    IF i > Len(declarations)
    THEN [decl |-> maybe_decl, ambiguous |-> ambiguous]
    ELSE LET c == candidate(declarations[i], args) IN
         IF c = "skip"
         THEN scan_declarations_last_wins(declarations, args, i + 1, maybe_decl, ambiguous)
         ELSE IF c = "exact"
         THEN [decl |-> i, ambiguous |-> FALSE]
         ELSE scan_declarations_last_wins(declarations, args, i + 1, i, ambiguous)

\* The 'outer loop over the overload set, from declaration i on, with the
\* loop's two variables; the result is their value when the loop ends.
RECURSIVE scan_declarations(_, _, _, _, _)
scan_declarations(declarations, args, i, maybe_decl, ambiguous) ==
    IF i > Len(declarations)
    THEN [decl |-> maybe_decl, ambiguous |-> ambiguous]
    ELSE LET c == candidate(declarations[i], args) IN
         IF c = "skip"
         THEN scan_declarations(declarations, args, i + 1, maybe_decl, ambiguous)
         ELSE IF c = "exact"
         THEN [decl |-> i, ambiguous |-> FALSE]
         ELSE IF maybe_decl # None
         THEN scan_declarations(declarations, args, i + 1, maybe_decl, TRUE)
         ELSE scan_declarations(declarations, args, i + 1, i, ambiguous)

\* function_call for FunctionCallKind::Function(name), name no builtin; args
\* are the resolved types of the lowered arguments.
function_call(name, args) ==
    /\ pc = "registering"
    /\ IF name \notin DOMAIN lookup_function
       THEN ret' = Result("function_call", name, args, "Err",
                          <<"Unknown function", name>>, None)
       ELSE LET declarations == lookup_function[name]
                r == scan_declarations(declarations, args, 1, None, FALSE)
            IN
            IF r.ambiguous
            THEN ret' = Result("function_call", name, args, "Err",
                               <<"Ambiguous best function for", name>>, None)
            ELSE IF r.decl = None
            THEN ret' = Result("function_call", name, args, "Err",
                               <<"Unknown function", name>>, None)
            ELSE ret' = [Result("function_call", name, args, "Ok", <<>>,
                                declarations[r.decl].handle) EXCEPT !.decl = r.decl]
    /\ UNCHANGED <<types, functions, lookup_function, function_arg_use, entries,
                   entry_args, module_entry_points>>
    /\ UNCHANGED <<pc, ctx, walk>>

\* ------------------------------------------------------------------ usage propagation
\* EntryArgUse is a set of flags; EntryArgUse::empty() is {}.
Repeat(x, n) == [i \in 1..n |-> x]

\* call_global that assigns the callee's vector to the caller.
call_global_assign(caller, use, function) == [use EXCEPT ![caller] = use[function]]

\* call_global that sets both flags wherever the callee has one.
call_global_all(caller, use, function) ==
    LET callee_len == Len(use[function])
        caller_len == Len(use[caller])
        grow == IF callee_len > caller_len THEN callee_len - caller_len ELSE 0
        extended == use[caller] \o Repeat({}, grow)
    IN [use EXCEPT ![caller] =
           [i \in 1..Len(extended) |->
               IF i <= Min(callee_len, caller_len) /\ use[function][i] # {}
               THEN {"READ", "WRITE"}
               ELSE extended[i]]]

\* The Statement::Call arm of check_call_global: the caller's vector is
\* extended with empty records up to the callee's length, then the callee's
\* flags are or-ed in below min(callee_len, caller_len), the lengths read
\* before the extension.
call_global(caller, use, function) ==
    LET callee_len == Len(use[function])
        caller_len == Len(use[caller])
        grow == IF callee_len > caller_len THEN callee_len - caller_len ELSE 0
        extended == use[caller] \o Repeat({}, grow)
    IN [use EXCEPT ![caller] =
           [i \in 1..Len(extended) |->
               IF i <= Min(callee_len, caller_len)
               THEN extended[i] \cup use[function][i]
               ELSE extended[i]]]

\* check_call_global on one statement, and on the statements of a list of
\* blocks in order (the chained iterators of the If, Switch and Loop arms).
RECURSIVE check_call_global(_, _, _)
RECURSIVE check_blocks(_, _, _)
RECURSIVE check_block(_, _, _)
check_call_global(caller, use, stmt) ==
    IF IsCompound(stmt) THEN check_blocks(caller, use, stmt.blocks)
    ELSE IF stmt.kind = "Call" THEN call_global(caller, use, stmt.function)
    ELSE use

check_block(caller, use, block) ==
    IF block = <<>> THEN use
    ELSE check_block(caller, check_call_global(caller, use, Head(block)), Tail(block))

check_blocks(caller, use, blocks) ==
    IF blocks = <<>> THEN use
    ELSE check_blocks(caller, check_block(caller, use, Head(blocks)), Tail(blocks))

\* The first loop of add_entry_points: every function of the arena in handle
\* order, every statement of its body.
RECURSIVE propagate(_, _)
propagate(use, handle) ==
    IF handle > Len(functions) THEN use
    ELSE propagate(check_block(handle, use, functions[handle].body), handle + 1)

\* ------------------------------------------------------------------ entry synthesis
\* module.global_variables: the type of each global; a stage-interface
\* argument stands for one of the first three, 4 and 5 are the textures and 6
\* and 7 the samplers of the function being lowered.
global_variables ==
    << [ty |-> 2], [ty |-> 5], [ty |-> 3],
       [ty |-> 9], [ty |-> 10], [ty |-> 6], [ty |-> 6] >>

early_fragment_tests == TRUE
workgroup_size == <<1, 1, 1>>

GlobalVariable(h) == [kind |-> "GlobalVariable", handle |-> h]
FunctionArgument(idx) == [kind |-> "FunctionArgument", index |-> idx]
Load(pointer) == [kind |-> "Load", pointer |-> pointer]
Compose(ty, components) == [kind |-> "Compose", ty |-> ty, components |-> components]

Store(pointer, value) == [kind |-> "Store", pointer |-> pointer, value |-> value]
\* Statement::Emit of the expressions first..last of the arena.
Emit(first, last) == [kind |-> "Emit", first |-> first, last |-> last]

\* unused with the other default: an argument without usage record counts as
\* used.
unused_default_used(use, function, i, flag) ==
    IF i <= Len(use[function]) THEN flag \notin use[function][i] ELSE FALSE

\* The test that skips a stage-interface argument: no usage record at i, or
\* the flag not set.
unused(use, function, i, flag) ==
    IF i <= Len(use[function]) THEN flag \notin use[function][i] ELSE TRUE

\* entry_inputs that numbers a parameter by its stage-interface index instead
\* of its position among the parameters.
RECURSIVE entry_inputs_by_index(_, _, _, _, _)
entry_inputs_by_index(use, function, stage, i, acc) ==
    IF i > Len(entry_args) THEN acc
    ELSE LET arg == entry_args[i] IN
         IF unused(use, function, i, "READ") \/ stage \notin arg.prologue
         THEN entry_inputs_by_index(use, function, stage, i + 1, acc)
         ELSE LET ty == global_variables[arg.handle].ty
                  pointer == Len(acc.expressions) + 1
                  value == Len(acc.expressions) + 2
              IN entry_inputs_by_index(use, function, stage, i + 1,
                    [arguments |-> Append(acc.arguments,
                                          [name |-> arg.name, ty |-> ty, binding |-> arg.binding]),
                     expressions |-> acc.expressions \o
                                     <<GlobalVariable(arg.handle), FunctionArgument(i - 1)>>,
                     body |-> Append(acc.body, Store(pointer, value))])

\* The loop over entry_args that builds the parameters and their stores,
\* from argument i on; acc holds arguments, expressions and body.
RECURSIVE entry_inputs(_, _, _, _, _)
entry_inputs(use, function, stage, i, acc) ==
    IF i > Len(entry_args) THEN acc
    ELSE LET arg == entry_args[i] IN
         IF unused(use, function, i, "READ") \/ stage \notin arg.prologue
         THEN entry_inputs(use, function, stage, i + 1, acc)
         ELSE LET ty == global_variables[arg.handle].ty
                  idx == Len(acc.arguments)
                  pointer == Len(acc.expressions) + 1
                  value == Len(acc.expressions) + 2
              IN entry_inputs(use, function, stage, i + 1,
                    [arguments |-> Append(acc.arguments,
                                          [name |-> arg.name, ty |-> ty, binding |-> arg.binding]),
                     expressions |-> acc.expressions \o
                                     <<GlobalVariable(arg.handle), FunctionArgument(idx)>>,
                     body |-> Append(acc.body, Store(pointer, value))])

\* entry_outputs that reads a member's offset after adding the member's size
\* to the span.
RECURSIVE entry_outputs_offset_after(_, _, _, _)
entry_outputs_offset_after(use, function, i, acc) ==
    IF i > Len(entry_args) THEN acc
    ELSE LET arg == entry_args[i] IN
         IF unused(use, function, i, "WRITE")
         THEN entry_outputs_offset_after(use, function, i + 1, acc)
         ELSE LET ty == global_variables[arg.handle].ty
                  pointer == Len(acc.expressions) + 1
                  load == Len(acc.expressions) + 2
              IN entry_outputs_offset_after(use, function, i + 1,
                    [span |-> acc.span + span_of(types[ty]),
                     members |-> Append(acc.members,
                                        [name |-> arg.name, ty |-> ty,
                                         binding |-> arg.binding,
                                         offset |-> acc.span + span_of(types[ty])]),
                     components |-> Append(acc.components, load),
                     expressions |-> acc.expressions \o <<GlobalVariable(arg.handle), Load(pointer)>>,
                     body |-> Append(acc.body, Emit(load, load))])

\* The loop over entry_args that builds the output struct's members and the
\* loads of their globals, from argument i on.
RECURSIVE entry_outputs(_, _, _, _)
entry_outputs(use, function, i, acc) ==
    IF i > Len(entry_args) THEN acc
    ELSE LET arg == entry_args[i] IN
         IF unused(use, function, i, "WRITE")
         THEN entry_outputs(use, function, i + 1, acc)
         ELSE LET ty == global_variables[arg.handle].ty
                  pointer == Len(acc.expressions) + 1
                  load == Len(acc.expressions) + 2
              IN entry_outputs(use, function, i + 1,
                    [span |-> acc.span + span_of(types[ty]),
                     members |-> Append(acc.members,
                                        [name |-> arg.name, ty |-> ty,
                                         binding |-> arg.binding, offset |-> acc.span]),
                     components |-> Append(acc.components, load),
                     expressions |-> acc.expressions \o <<GlobalVariable(arg.handle), Load(pointer)>>,
                     body |-> Append(acc.body, Emit(load, load))])

\* entry_call that puts the call in front of the stores.
entry_call_first(body, function) == <<Call(function)>> \o body

\* The call statement of the entry function: the user function, no arguments,
\* no result, pushed after the stores.
entry_call(body, function) == Append(body, Call(function))

\* One iteration of the loop over entries: the entry point of (name, stage,
\* function) and the types arena after it.
synthesize(use, tys, entry) ==
    LET name == entry[1]
        stage == entry[2]
        function == entry[3]
        ins == entry_inputs(use, function, stage, 1,
                            [arguments |-> <<>>, expressions |-> <<>>, body |-> <<>>])
        called == entry_call(ins.body, function)
        outs == entry_outputs(use, function, 1,
                              [span |-> 0, members |-> <<>>, components |-> <<>>,
                               expressions |-> ins.expressions, body |-> called])
        some == outs.components # <<>>
        ty == IF some THEN Len(tys) + 1 ELSE None
        res == IF some THEN Len(outs.expressions) + 1 ELSE None
        expressions == IF some
                       THEN Append(outs.expressions, Compose(ty, outs.components))
                       ELSE outs.expressions
        body == IF some THEN Append(outs.body, Emit(res, res)) ELSE outs.body
    IN [types |-> IF some THEN Append(tys, Struct(outs.members, outs.span)) ELSE tys,
        entry_point |->
           [name |-> name,
            stage |-> stage,
            early_depth_test |-> (early_fragment_tests /\ stage = "Fragment"),
            workgroup_size |-> IF stage = "Compute" THEN workgroup_size ELSE <<0, 0, 0>>,
            function |-> [arguments |-> ins.arguments,
                          expressions |-> expressions,
                          body |-> Append(body, [kind |-> "Return", value |-> res]),
                          result |-> ty]]]

\* The loop over entries, from entry k on.
RECURSIVE synthesize_all(_, _, _, _)
synthesize_all(use, tys, eps, k) ==
    IF k > Len(entries) THEN [types |-> tys, entry_points |-> eps]
    ELSE LET r == synthesize(use, tys, entries[k])
         IN synthesize_all(use, r.types, Append(eps, r.entry_point), k + 1)

add_entry_points ==
    LET use == propagate(function_arg_use, 1)
        r == synthesize_all(use, types, module_entry_points, 1)
    IN
    /\ pc = "registering"
    /\ pc' = "done"
    /\ function_arg_use' = <<>>
    /\ types' = r.types
    /\ module_entry_points' = r.entry_points
    /\ ret' = [Result("add_entry_points", "", <<>>, "Ok", <<>>, None) EXCEPT !.use = use]
    /\ UNCHANGED <<functions, lookup_function, entries, entry_args, ctx, walk>>

\* ------------------------------------------------------------------ collaborators
\* The parser's write of a function context's usage vector, made for the
\* handle add_function has just returned: one record per stage-interface
\* argument known to the context.
set_arg_use(arg_use) ==
    /\ pc = "registering"
    /\ ret.op = "add_function"
    /\ ret.status = "Ok"
    /\ function_arg_use' = [function_arg_use EXCEPT ![ret.handle] = arg_use]
    /\ ret' = [Result("set_arg_use", ret.name, <<>>, "Ok", <<>>, ret.handle)
                  EXCEPT !.use = arg_use]
    /\ UNCHANGED <<types, functions, lookup_function, entries, entry_args,
                   module_entry_points, pc, ctx, walk>>

\* ------------------------------------------------------------------ context
MaxExpressions == 12   \* expressions of a context when a call is still lowered into it

\* Expressions function_call adds to the context's arena.
LocalVariable(variable) == [kind |-> "LocalVariable", variable |-> variable]
Splat(size, value) == [kind |-> "Splat", size |-> size, value |-> value]
As(kind, expr, convert) == [kind |-> "As", to |-> kind, expr |-> expr, convert |-> convert]
Swizzle(size, vector) == [kind |-> "Swizzle", size |-> size, vector |-> vector]
AccessIndex(base, index) == [kind |-> "AccessIndex", base |-> base, index |-> index]
ImageSample(image, sampler, coordinate, level) ==
    [kind |-> "ImageSample", image |-> image, sampler |-> sampler,
     coordinate |-> coordinate, level |-> level]
ImageQuery(image, level) == [kind |-> "ImageQuery", image |-> image, level |-> level]
ImageLoad(image, coordinate, array_index, index) ==
    [kind |-> "ImageLoad", image |-> image, coordinate |-> coordinate,
     array_index |-> array_index, index |-> index]
Math(fun, arg, arg1, arg2) ==
    [kind |-> "Math", fun |-> fun, arg |-> arg, arg1 |-> arg1, arg2 |-> arg2]
Binary(op, left, right) == [kind |-> "Binary", op |-> op, left |-> left, right |-> right]
Select(condition, accept, reject) ==
    [kind |-> "Select", condition |-> condition, accept |-> accept, reject |-> reject]
Relational(fun, argument) == [kind |-> "Relational", fun |-> fun, argument |-> argument]
\* Expression::Call(function), the value a call statement captures.
CallResult(function) == [kind |-> "CallResult", function |-> function]

\* HIR nodes: a variable reference (load = the value is read through a
\* pointer), a swizzle of a base node, a call of a user function, an assignment.
HirVariable(expr, load) == [kind |-> "Variable", expr |-> expr, load |-> load]
HirSelect(base, size) == [kind |-> "Select", base |-> base, size |-> size]
HirCall(name, args) == [kind |-> "Call", name |-> name, args |-> args]
HirAssign(tgt, value) == [kind |-> "Assign", tgt |-> tgt, value |-> value]

\* ParameterQualifier::is_lhs(): the argument must be an addressable location.
is_lhs(qualifier) == qualifier \in {"Out", "InOut"}

\* The context of a function with the parameters (int, float, vec2, bool,
\* mat2, mat3): expressions 1..6 are its arguments, 7 and 8 the textures, 9 and
\* 10 the samplers, 11 the vec2 global; HIR nodes 1..11 refer to them in that
\* order (the global is read through its pointer), 12 is a swizzle of the
\* global, 13 a swizzle of the vec2 parameter and 14 the call f().
NewContext ==
    [arguments |-> << [ty |-> 1], [ty |-> 2], [ty |-> 5], [ty |-> 3], [ty |-> 7], [ty |-> 8] >>,
     expressions |-> [i \in 1..6 |-> FunctionArgument(i - 1)]
                       \o << GlobalVariable(4), GlobalVariable(5), GlobalVariable(6),
                             GlobalVariable(7), GlobalVariable(2) >>,
     locals |-> <<>>,
     samplers |-> <<>>,
     hir_exprs |-> [i \in 1..10 |-> HirVariable(i, FALSE)]
                     \o << HirVariable(11, TRUE), HirSelect(11, 2), HirSelect(3, 2),
                           HirCall("f", <<>>) >>,
     emit_start |-> 11,
     body |-> <<>>,
     lowered |-> <<>>]

\* Context::add_expression: the handle of the new expression is the arena's
\* new length.
add_expression(c, expr) == [c EXCEPT !.expressions = Append(@, expr)]

\* Context::emit_flush: the expressions added since emit_start become one Emit
\* statement of the body; Context::emit_start: emission restarts at the end of
\* the arena.
emit_flush(c) ==
    IF c.emit_start < Len(c.expressions)
    THEN [c EXCEPT !.body = Append(@, Emit(c.emit_start + 1, Len(c.expressions))),
                   !.emit_start = Len(c.expressions)]
    ELSE c

emit_start(c) == [c EXCEPT !.emit_start = Len(c.expressions)]

\* A type no rule of the front end tells apart.
NoType == [tag |-> "Other", kind |-> "NoKind", width |-> 0, size |-> 0]

\* Program::resolve_type: the TypeInner of an expression of the context.
RECURSIVE resolve_type(_, _, _)
resolve_type(c, tys, h) ==
    LET e == c.expressions[h] IN
    CASE e.kind = "FunctionArgument" -> tys[c.arguments[e.index + 1].ty]
      [] e.kind = "GlobalVariable" -> tys[global_variables[e.handle].ty]
      [] e.kind = "LocalVariable" -> tys[c.locals[e.variable].ty]
      [] e.kind = "Load" -> resolve_type(c, tys, e.pointer)
      [] e.kind = "Swizzle" ->
            LET v == resolve_type(c, tys, e.vector) IN Vector(e.size, v.kind, v.width)
      [] e.kind = "As" ->
            LET v == resolve_type(c, tys, e.expr)
                width == IF e.convert = None THEN v.width ELSE e.convert
            IN IF v.tag = "Vector" THEN Vector(v.size, e.to, width) ELSE Scalar(e.to, width)
      [] e.kind = "CallResult" ->
            IF functions[e.function].result = None THEN NoType
            ELSE tys[functions[e.function].result]
      [] OTHER -> NoType

\* Context::implicit_conversion: an expression whose kind ranks below the
\* wanted kind is wrapped in a cast to it; any other expression stays.
implicit_conversion(c, tys, expr, kind) ==
    IF /\ type_power(kind) # -1
       /\ power_of(resolve_type(c, tys, expr)) # -1
       /\ type_power(kind) > power_of(resolve_type(c, tys, expr))
    THEN [ctx |-> add_expression(c, As(kind, expr, None)), expr |-> Len(c.expressions) + 1]
    ELSE [ctx |-> c, expr |-> expr]

\* Context::binary_implicit_conversion: of two ranked operands the lower one
\* is converted to the kind of the higher.
binary_implicit_conversion(c, tys, left, right) ==
    LET lp == power_of(resolve_type(c, tys, left))
        rp == power_of(resolve_type(c, tys, right))
    IN IF lp = -1 \/ rp = -1 \/ lp = rp
       THEN [ctx |-> c, left |-> left, right |-> right]
       ELSE IF lp < rp
       THEN [ctx |-> add_expression(c, As(scalar_kind(resolve_type(c, tys, right)), left, None)),
             left |-> Len(c.expressions) + 1, right |-> right]
       ELSE [ctx |-> add_expression(c, As(scalar_kind(resolve_type(c, tys, left)), right, None)),
             left |-> left, right |-> Len(c.expressions) + 1]

\* What function_call and the lowering return: the context and the type arena
\* as they are left, Ok(Some(value)) / Ok(None) or Err(msg).
Ok(c, tys, value) ==
    [ctx |-> c, types |-> tys, status |-> "Ok", msg |-> <<>>, value |-> value,
     expected |-> None, actual |-> None, function |-> None]
Err(c, tys, msg) ==
    [ctx |-> c, types |-> tys, status |-> "Err", msg |-> msg, value |-> None,
     expected |-> None, actual |-> None, function |-> None]
\* ErrorKind::wrong_function_args(name, expected, actual, meta)
wrong_function_args(c, tys, name, expected, actual) ==
    [Err(c, tys, <<"wrong_function_args", name>>)
        EXCEPT !.expected = expected, !.actual = actual]

\* ------------------------------------------------------------------ type constructors
\* The loop of the many-argument constructor: every argument converted to the
\* target's scalar kind, when the target has one.
RECURSIVE convert_components(_, _, _, _, _, _)
convert_components(c, tys, kind, args, i, components) ==
    IF i > Len(args) THEN [ctx |-> c, components |-> components]
    ELSE IF kind # "NoKind"
    THEN LET cv == implicit_conversion(c, tys, args[i], kind)
         IN convert_components(cv.ctx, tys, kind, args, i + 1, Append(components, cv.expr))
    ELSE convert_components(c, tys, kind, args, i + 1, Append(components, args[i]))

\* The loop of the matrix-from-matrix constructor, from column n on: column n
\* of the source is accessed and swizzled to the target's rows.
RECURSIVE matrix_columns(_, _, _, _, _, _)
matrix_columns(c, value, rows, columns, n, components) ==
    IF n >= columns THEN [ctx |-> c, components |-> components]
    ELSE LET vector == Len(c.expressions) + 1
             c1 == add_expression(c, AccessIndex(value, n))
             c2 == add_expression(c1, Swizzle(rows, vector))
         IN matrix_columns(c2, value, rows, columns, n + 1,
                           Append(components, Len(c2.expressions)))

\* FunctionCallKind::TypeConstructor(ty) over the lowered arguments.
type_constructor(c, tys, ty, args) ==
    LET inner == tys[ty] IN
    IF Len(args) = 1
    THEN LET arg_ty == resolve_type(c, tys, args[1])
             is_vec == arg_ty.tag = "Vector"
         IN
         CASE inner.tag = "Vector" /\ ~is_vec ->
                 LET cv == implicit_conversion(c, tys, args[1], inner.kind)
                 IN Ok(add_expression(cv.ctx, Splat(inner.size, cv.expr)), tys,
                       Len(cv.ctx.expressions) + 1)
           [] inner.tag = "Scalar" ->
                 Ok(add_expression(c, As(inner.kind, args[1], inner.width)), tys,
                    Len(c.expressions) + 1)
           [] inner.tag = "Vector" /\ is_vec ->
                 LET c1 == add_expression(c, Swizzle(inner.size, args[1]))
                 IN Ok(add_expression(c1, As(inner.kind, Len(c1.expressions), inner.width)),
                       tys, Len(c1.expressions) + 1)
           [] inner.tag = "Matrix" ->
                 LET cv == implicit_conversion(c, tys, args[1], "Float") IN
                 IF arg_ty.tag = "Matrix"
                 THEN LET m == matrix_columns(cv.ctx, cv.expr, inner.rows, inner.columns,
                                              0, <<>>)
                      IN Ok(add_expression(m.ctx, Compose(ty, m.components)), tys,
                            Len(m.ctx.expressions) + 1)
                 ELSE LET c1 == IF arg_ty.tag = "Scalar"
                                THEN add_expression(cv.ctx, Splat(inner.rows, cv.expr))
                                ELSE cv.ctx
                          column == IF arg_ty.tag = "Scalar"
                                    THEN Len(c1.expressions) ELSE cv.expr
                      IN Ok(add_expression(c1, Compose(ty, Repeat(column, inner.columns))),
                            tys, Len(c1.expressions) + 1)
           [] inner.tag = "Struct" ->
                 Ok(add_expression(c, Compose(ty, args)), tys, Len(c.expressions) + 1)
           [] OTHER -> Err(c, tys, <<"Bad cast">>)
    ELSE LET cc == convert_components(c, tys, scalar_kind(inner), args, 1, <<>>)
         IN Ok(add_expression(cc.ctx, Compose(ty, cc.components)), tys,
               Len(cc.ctx.expressions) + 1)

\* ------------------------------------------------------------------ builtins
\* The names of the builtin table by the count of arguments they take.
Unary ==
    {"ceil", "round", "floor", "fract", "trunc", "sin", "abs", "sqrt",
     "inversesqrt", "exp", "exp2", "sign", "transpose", "inverse", "normalize",
     "sinh", "cos", "cosh", "tan", "tanh", "acos", "asin", "log", "log2",
     "length", "determinant", "bitCount", "bitfieldReverse"}
BinaryMath ==
    {"pow", "dot", "max", "min", "reflect", "cross", "outerProduct", "distance",
     "step", "modf", "frexp", "ldexp"}
Ternary == {"clamp", "faceforward", "refract", "fma", "smoothstep"}
Comparisons ==
    {"lessThan", "greaterThan", "lessThanEqual", "greaterThanEqual", "equal", "notEqual"}
Relationals == {"isinf", "isnan", "all", "any"}
Builtins ==
    {"sampler2D", "texture", "textureLod", "textureSize", "texelFetch", "atan",
     "mod", "mix"} \cup Unary \cup BinaryMath \cup Ternary \cup Comparisons \cup Relationals

\* The operation tag a builtin name stands for.
MathFunction(name) ==
    CASE name = "ceil" -> "Ceil" [] name = "round" -> "Round" [] name = "floor" -> "Floor"
      [] name = "fract" -> "Fract" [] name = "trunc" -> "Trunc" [] name = "sin" -> "Sin"
      [] name = "abs" -> "Abs" [] name = "sqrt" -> "Sqrt"
      [] name = "inversesqrt" -> "InverseSqrt" [] name = "exp" -> "Exp"
      [] name = "exp2" -> "Exp2" [] name = "sign" -> "Sign"
      [] name = "transpose" -> "Transpose" [] name = "inverse" -> "Inverse"
      [] name = "normalize" -> "Normalize" [] name = "sinh" -> "Sinh"
      [] name = "cos" -> "Cos" [] name = "cosh" -> "Cosh" [] name = "tan" -> "Tan"
      [] name = "tanh" -> "Tanh" [] name = "acos" -> "Acos" [] name = "asin" -> "Asin"
      [] name = "log" -> "Log" [] name = "log2" -> "Log2" [] name = "length" -> "Length"
      [] name = "determinant" -> "Determinant" [] name = "bitCount" -> "CountOneBits"
      [] name = "bitfieldReverse" -> "ReverseBits"
      [] name = "pow" -> "Pow" [] name = "dot" -> "Dot" [] name = "max" -> "Max"
      [] name = "min" -> "Min" [] name = "reflect" -> "Reflect" [] name = "cross" -> "Cross"
      [] name = "outerProduct" -> "Outer" [] name = "distance" -> "Distance"
      [] name = "step" -> "Step" [] name = "modf" -> "Modf" [] name = "frexp" -> "Frexp"
      [] name = "ldexp" -> "Ldexp"
      [] name = "clamp" -> "Clamp" [] name = "faceforward" -> "FaceForward"
      [] name = "refract" -> "Refract" [] name = "fma" -> "Fma"
      [] name = "smoothstep" -> "SmoothStep"

BinaryOperator(name) ==
    CASE name = "lessThan" -> "Less" [] name = "greaterThan" -> "Greater"
      [] name = "lessThanEqual" -> "LessEqual" [] name = "greaterThanEqual" -> "GreaterEqual"
      [] name = "equal" -> "Equal" [] name = "notEqual" -> "NotEqual"

RelationalFunction(name) ==
    CASE name = "isinf" -> "IsInf" [] name = "isnan" -> "IsNan"
      [] name = "all" -> "All" [] name = "any" -> "Any"

\* insert that keeps the sampler an image is already paired with.
insert_keep_first(samplers, image, sampler) ==
    [k \in (DOMAIN samplers) \cup {image} |->
        IF k \in DOMAIN samplers THEN samplers[k] ELSE sampler]

\* ctx.samplers.insert(image, sampler)
insert(samplers, image, sampler) ==
    [k \in (DOMAIN samplers) \cup {image} |-> IF k = image THEN sampler ELSE samplers[k]]

\* Ok(Some(ctx.add_expression(expr, body)))
added(c, tys, expr) == Ok(add_expression(c, expr), tys, Len(c.expressions) + 1)

\* The coordinate and array index of texelFetch on an image of the given type.
texel_coordinate(c, tys, image, coordinate) ==
    LET ty == resolve_type(c, tys, image)
        arrayed == IF ty.tag = "Image" THEN ty.arrayed ELSE FALSE
        dims == IF ty.tag = "Image" THEN ty.dim ELSE "D1"
    IN IF arrayed
       THEN LET c1 == add_expression(c,
                         CASE dims = "D1" -> AccessIndex(coordinate, 0)
                           [] dims = "D2" -> Swizzle(2, coordinate)
                           [] OTHER -> Swizzle(3, coordinate))
                c2 == add_expression(c1,
                         AccessIndex(coordinate,
                            CASE dims = "D1" -> 1 [] dims = "D2" -> 2
                              [] dims = "D3" -> 3 [] OTHER -> 2))
            IN [ctx |-> c2, coordinate |-> Len(c1.expressions),
                array_index |-> Len(c2.expressions)]
       ELSE [ctx |-> c, coordinate |-> coordinate, array_index |-> None]

\* parse_relational_fun that only rejects a call without arguments.
parse_relational_fun_some(c, tys, name, args, fun) ==
    IF Len(args) = 0 THEN wrong_function_args(c, tys, name, 1, Len(args))
    ELSE added(c, tys, Relational(fun, args[1]))

\* parse_relational_fun
parse_relational_fun(c, tys, name, args, fun) ==
    IF Len(args) # 1 THEN wrong_function_args(c, tys, name, 1, Len(args))
    ELSE added(c, tys, Relational(fun, args[1]))

\* FunctionCallKind::Function(name) for a name of the builtin table, over the
\* lowered arguments.
builtin(c, tys, name, args) ==
    LET n == Len(args) IN
    CASE name = "sampler2D" ->
            IF n # 2 THEN wrong_function_args(c, tys, name, 2, n)
            ELSE Ok([c EXCEPT !.samplers = insert(@, args[1], args[2])], tys, args[1])
      [] name = "texture" ->
            IF n \notin 2..3 THEN wrong_function_args(c, tys, name, 2, n)
            ELSE IF args[1] \in DOMAIN c.samplers
            THEN added(c, tys,
                       ImageSample(args[1], c.samplers[args[1]], args[2],
                                   IF n >= 3 THEN <<"Bias", args[3]>> ELSE <<"Auto">>))
            ELSE Err(c, tys, <<"Bad call to texture">>)
      [] name = "textureLod" ->
            IF n # 3 THEN wrong_function_args(c, tys, name, 3, n)
            ELSE LET c1 == add_expression(c, As("Float", args[3], 4))
                     exact == Len(c1.expressions)
                 IN IF args[1] \in DOMAIN c.samplers
                    THEN added(c1, tys,
                               ImageSample(args[1], c.samplers[args[1]], args[2],
                                           <<"Exact", exact>>))
                    ELSE Err(c1, tys, <<"Bad call to textureLod">>)
      [] name = "textureSize" ->
            IF n \notin 1..2 THEN wrong_function_args(c, tys, name, 1, n)
            ELSE added(c, tys, ImageQuery(args[1], IF n >= 2 THEN args[2] ELSE None))
      [] name = "texelFetch" ->
            IF n # 3 THEN wrong_function_args(c, tys, name, 3, n)
            ELSE IF args[1] \in DOMAIN c.samplers
            THEN LET t == texel_coordinate(c, tys, args[1], args[2])
                 IN added(t.ctx, tys, ImageLoad(args[1], t.coordinate, t.array_index, args[3]))
            ELSE Err(c, tys, <<"Bad call to texelFetch">>)
      [] name \in Unary ->
            IF n # 1 THEN wrong_function_args(c, tys, name, 1, n)
            ELSE added(c, tys, Math(MathFunction(name), args[1], None, None))
      [] name = "atan" ->
            IF n = 1 THEN added(c, tys, Math("Atan", args[1], None, None))
            ELSE IF n = 2 THEN added(c, tys, Math("Atan2", args[1], args[2], None))
            ELSE wrong_function_args(c, tys, name, 2, n)
      [] name = "mod" ->
            IF n # 2 THEN wrong_function_args(c, tys, name, 2, n)
            ELSE LET cv == binary_implicit_conversion(c, tys, args[1], args[2])
                 IN added(cv.ctx, tys, Binary("Modulo", cv.left, cv.right))
      [] name \in BinaryMath ->
            IF n # 2 THEN wrong_function_args(c, tys, name, 2, n)
            ELSE added(c, tys, Math(MathFunction(name), args[1], args[2], None))
      [] name = "mix" ->
            IF n # 3 THEN wrong_function_args(c, tys, name, 3, n)
            ELSE IF scalar_kind(resolve_type(c, tys, args[3])) = "Bool"
            THEN added(c, tys, Select(args[3], args[1], args[2]))
            ELSE added(c, tys, Math("Mix", args[1], args[2], args[3]))
      [] name \in Ternary ->
            IF n # 3 THEN wrong_function_args(c, tys, name, 3, n)
            ELSE added(c, tys, Math(MathFunction(name), args[1], args[2], args[3]))
      [] name \in Comparisons ->
            IF n # 2 THEN wrong_function_args(c, tys, name, 2, n)
            ELSE added(c, tys, Binary(BinaryOperator(name), args[1], args[2]))
      [] name \in Relationals ->
            parse_relational_fun(c, tys, name, args, RelationalFunction(name))

\* ------------------------------------------------------------------ lowering of calls
\* FunctionCallKind
TypeConstructor(ty) == [kind |-> "TypeConstructor", name |-> "", ty |-> ty]
Function(name) == [kind |-> "Function", name |-> name, ty |-> None]

\* A lower_expect invocation made by function_call, noted in the context:
\* pass "args" is the loop over raw_args at its top, "bind" the loop over the
\* parameters of the declaration, "write_back" the loop over proxy_writes.
noted(c, hir, lhs, pass) ==
    [c EXCEPT !.lowered = Append(@, [hir |-> hir, lhs |-> lhs, pass |-> pass])]

\* A `let` of the source: the value is computed once and named in what
\* follows.
With(value, then(_)) == then(value)

RECURSIVE lower_expect(_, _, _, _)
RECURSIVE lower_args(_, _, _, _, _)
RECURSIVE bind_arguments(_, _, _, _, _, _, _, _)
RECURSIVE write_back(_, _, _, _)
RECURSIVE user_function(_, _, _, _, _)
RECURSIVE call_in(_, _, _, _)

\* Context::lower_expect: the expression of one HIR node, as an addressable
\* location when lhs; a call node goes back into function_call.
lower_expect(c, tys, h, lhs) ==
    LET node == c.hir_exprs[h] IN
    CASE node.kind = "Variable" ->
            IF node.load /\ ~lhs THEN added(c, tys, Load(node.expr))
            ELSE Ok(c, tys, node.expr)
      [] node.kind = "Select" ->
            With(lower_expect(c, tys, node.base, lhs), LAMBDA b :
                IF b.status = "Err" THEN b
                ELSE added(b.ctx, b.types, Swizzle(node.size, b.value)))
      [] node.kind = "Call" ->
            With(call_in(c, tys, Function(node.name), node.args), LAMBDA r :
                IF r.status = "Ok" /\ r.value = None
                THEN Err(r.ctx, r.types, <<"Expression returns void">>)
                ELSE r)
      [] node.kind = "Assign" ->
            With(lower_expect(c, tys, node.tgt, TRUE), LAMBDA t :
                IF t.status = "Err" THEN t
                ELSE With(lower_expect(t.ctx, t.types, node.value, FALSE), LAMBDA v :
                    IF v.status = "Err" THEN v
                    ELSE With(emit_start(emit_flush(v.ctx)), LAMBDA c1 :
                        Ok([c1 EXCEPT !.body = Append(@, Store(t.value, v.value))],
                           v.types, v.value))))

\* The loop at the top of function_call: every raw argument lowered as a
\* value, in order, up to the first error.
lower_args(c, tys, raw_args, i, args) ==
    IF i > Len(raw_args) THEN [status |-> "Ok", ctx |-> c, types |-> tys, args |-> args]
    ELSE With(lower_expect(noted(c, raw_args[i], FALSE, "args"), tys, raw_args[i], FALSE),
              LAMBDA lo :
                IF lo.status = "Err" THEN lo
                ELSE lower_args(lo.ctx, lo.types, raw_args, i + 1, Append(args, lo.value)))

\* The loop over qualifiers, raw arguments and parameters of the declaration
\* called, from position i on; arguments and proxy_writes are the loop's two
\* vectors.
bind_arguments(c, tys, qualifiers, raw_args, parameters, i, arguments, proxy_writes) ==
    IF i > Min(Len(qualifiers), Min(Len(raw_args), Len(parameters)))
    THEN [status |-> "Ok", ctx |-> c, types |-> tys, arguments |-> arguments,
          proxy_writes |-> proxy_writes]
    ELSE With(lower_expect(noted(c, raw_args[i], is_lhs(qualifiers[i]), "bind"),
                           tys, raw_args[i], is_lhs(qualifiers[i])),
              LAMBDA lo :
         IF lo.status = "Err" THEN lo
         ELSE With(resolve_type(lo.ctx, lo.types, lo.value), LAMBDA ty :
              \* one iteration of the loop: with a proxy, or with the implicit
              \* conversion to the parameter's kind
              With(IF /\ ty.tag = "Vector"
                      /\ is_lhs(qualifiers[i])
                      /\ lo.ctx.expressions[lo.value].kind = "Swizzle"
                   THEN LET tys1 == Append(lo.types, Vector(ty.size, ty.kind, ty.width))
                            temp_var == Len(lo.ctx.locals) + 1
                            temp_expr == Len(lo.ctx.expressions) + 1
                        IN [ctx |-> [add_expression(lo.ctx, LocalVariable(temp_var))
                                        EXCEPT !.locals = Append(@, [ty |-> Len(tys1)]),
                                               !.body = Append(@, Store(temp_expr, lo.value))],
                            types |-> tys1,
                            arguments |-> Append(arguments, temp_expr),
                            proxy_writes |-> Append(proxy_writes, <<raw_args[i], temp_expr>>)]
                   ELSE With(IF scalar_kind(lo.types[parameters[i]]) # "NoKind"
                             THEN implicit_conversion(lo.ctx, lo.types, lo.value,
                                                      scalar_kind(lo.types[parameters[i]]))
                             ELSE [ctx |-> lo.ctx, expr |-> lo.value],
                             LAMBDA cv :
                                [ctx |-> cv.ctx, types |-> lo.types,
                                 arguments |-> Append(arguments, cv.expr),
                                 proxy_writes |-> proxy_writes]),
                   LAMBDA bound :
                      bind_arguments(bound.ctx, bound.types, qualifiers, raw_args,
                                     parameters, i + 1, bound.arguments,
                                     bound.proxy_writes))))

\* write_back that stops after the first pending proxy write.
write_back_first(c, tys, proxy_writes, k) ==
    IF k > Min(1, Len(proxy_writes)) THEN Ok(c, tys, None)
    ELSE LET tgt == proxy_writes[k][1]
             pointer == proxy_writes[k][2]
             temp_ref == Len(c.hir_exprs) + 1
             assign == Len(c.hir_exprs) + 2
         IN With(lower_expect(
                    noted([c EXCEPT !.hir_exprs =
                              @ \o <<HirVariable(pointer, TRUE), HirAssign(tgt, temp_ref)>>],
                          assign, FALSE, "write_back"),
                    tys, assign, FALSE),
                 LAMBDA lo : IF lo.status = "Err" THEN lo ELSE Ok(lo.ctx, lo.types, None))

\* The loop over proxy_writes, from entry k on: the assignment of the
\* temporary to the original target is built and lowered.
write_back(c, tys, proxy_writes, k) ==
    IF k > Len(proxy_writes) THEN Ok(c, tys, None)
    ELSE LET tgt == proxy_writes[k][1]
             pointer == proxy_writes[k][2]
             temp_ref == Len(c.hir_exprs) + 1
             assign == Len(c.hir_exprs) + 2
         IN With(lower_expect(
                    noted([c EXCEPT !.hir_exprs =
                              @ \o <<HirVariable(pointer, TRUE), HirAssign(tgt, temp_ref)>>],
                          assign, FALSE, "write_back"),
                    tys, assign, FALSE),
                 LAMBDA lo :
                    IF lo.status = "Err" THEN lo
                    ELSE write_back(lo.ctx, lo.types, proxy_writes, k + 1))

\* FunctionCallKind::Function(name) for a name that is no builtin: the
\* overload is resolved over the types of the lowered arguments, the raw
\* arguments are bound to its parameters, the call statement is pushed and the
\* proxies are written back.
user_function(c, tys, name, raw_args, args) ==
    IF name \notin DOMAIN lookup_function
    THEN Err(c, tys, <<"Unknown function", name>>)
    ELSE With(scan_declarations(lookup_function[name],
                                [i \in 1..Len(args) |-> resolve_type(c, tys, args[i])],
                                1, None, FALSE),
              LAMBDA r :
         IF r.ambiguous THEN Err(c, tys, <<"Ambiguous best function for", name>>)
         ELSE IF r.decl = None THEN Err(c, tys, <<"Unknown function", name>>)
         ELSE LET decl == lookup_function[name][r.decl] IN
              With(bind_arguments(c, tys, decl.qualifiers, raw_args, decl.parameters,
                                  1, <<>>, <<>>),
                   LAMBDA b :
              IF b.status = "Err" THEN b
              ELSE With(emit_flush(b.ctx), LAMBDA c1 :
                   LET result == IF decl.void THEN None ELSE Len(c1.expressions) + 1
                       call == [Call(decl.handle) EXCEPT !.arguments = b.arguments,
                                                         !.result = result]
                   IN
                   With(write_back(
                           emit_start(
                              [(IF decl.void THEN c1
                                ELSE add_expression(c1, CallResult(decl.handle)))
                                  EXCEPT !.body = Append(@, call)]),
                           b.types, b.proxy_writes, 1),
                        LAMBDA w :
                           IF w.status = "Err" THEN w
                           ELSE [Ok(emit_start(emit_flush(w.ctx)), w.types, result)
                                    EXCEPT !.function = decl.handle]))))

\* Program::function_call on the context c and the type arena tys.
call_in(c, tys, fc, raw_args) ==
    With(lower_args(c, tys, raw_args, 1, <<>>), LAMBDA la :
        IF la.status = "Err" THEN la
        ELSE IF fc.kind = "TypeConstructor"
        THEN type_constructor(la.ctx, la.types, fc.ty, la.args)
        ELSE IF fc.name \in Builtins
        THEN builtin(la.ctx, la.types, fc.name, la.args)
        ELSE user_function(la.ctx, la.types, fc.name, raw_args, la.args))

\* Program::function_call: the call is lowered into the context; what it
\* returned, the lower_expect invocations it made and the context it found
\* are kept in ret.
function_call_ctx(fc, raw_args) ==
    \E r \in {call_in(ctx, types, fc, raw_args)} :
    /\ pc = "registering"
    /\ Len(ctx.expressions) < MaxExpressions
    /\ ctx' = [r.ctx EXCEPT !.lowered = <<>>]
    /\ types' = r.types
    /\ ret' = [op |-> "function_call_ctx", name |-> fc.name, parameters |-> raw_args,
               status |-> r.status, msg |-> r.msg, handle |-> r.value, decl |-> None,
               use |-> <<>>, fc |-> fc, expected |-> r.expected, actual |-> r.actual,
               function |-> IF r.status = "Ok" THEN r.function ELSE None,
               lowered |-> r.ctx.lowered, before |-> ctx]
    /\ UNCHANGED <<functions, lookup_function, function_arg_use, entries, entry_args,
                   module_entry_points, pc, walk>>

\* ------------------------------------------------------------------ the usage pass, statement by statement
\* The local usage table of add_entry_points (use), the table it took over
\* (start), the function whose body is walked (handle), the statements of that
\* body still to visit (stmts) and the call the last step processed, if any.
NoWalk ==
    [use |-> <<>>, start |-> <<>>, handle |-> None, stmts |-> <<>>,
     caller |-> None, callee |-> None]

\* The chained iterators of a compound statement: its blocks' statements in
\* order.
RECURSIVE chain(_)
chain(blocks) == IF blocks = <<>> THEN <<>> ELSE Head(blocks) \o chain(Tail(blocks))

\* add_entry_points up to its first loop: the usage table is swapped out of
\* the program and the walk starts at the first function.
begin_usage_pass ==
    /\ pc = "registering"
    /\ pc' = "propagating"
    /\ function_arg_use' = <<>>
    /\ walk' = [use |-> function_arg_use, start |-> function_arg_use, handle |-> 1,
                stmts |-> IF functions = <<>> THEN <<>> ELSE functions[1].body,
                caller |-> None, callee |-> None]
    /\ ret' = Result("begin_usage_pass", "", <<>>, "Ok", <<>>, None)
    /\ UNCHANGED <<types, functions, lookup_function, entries, entry_args,
                   module_entry_points, ctx>>

\* One invocation of check_call_global, without the invocations it makes: a
\* compound statement hands its statements on, a call changes the caller's
\* vector, any other statement nothing.
check_statement ==
    /\ pc = "propagating"
    /\ walk.stmts # <<>>
    /\ LET stmt == Head(walk.stmts) IN
       walk' = IF IsCompound(stmt)
               THEN [walk EXCEPT !.stmts = chain(stmt.blocks) \o Tail(@),
                                 !.caller = None, !.callee = None]
               ELSE IF stmt.kind = "Call"
               THEN [walk EXCEPT !.use = call_global(walk.handle, @, stmt.function),
                                 !.stmts = Tail(@),
                                 !.caller = walk.handle, !.callee = stmt.function]
               ELSE [walk EXCEPT !.stmts = Tail(@), !.caller = None, !.callee = None]
    /\ ret' = Result("check_call_global", "", <<>>, "Ok", <<>>, None)
    /\ UNCHANGED <<types, functions, lookup_function, function_arg_use, entries,
                   entry_args, module_entry_points, pc, ctx>>

\* The loop over module.functions goes on to the next function.
next_function ==
    /\ pc = "propagating"
    /\ walk.stmts = <<>>
    /\ walk.handle < Len(functions)
    /\ walk' = [walk EXCEPT !.handle = @ + 1, !.stmts = functions[walk.handle + 1].body,
                            !.caller = None, !.callee = None]
    /\ ret' = Result("next_function", "", <<>>, "Ok", <<>>, None)
    /\ UNCHANGED <<types, functions, lookup_function, function_arg_use, entries,
                   entry_args, module_entry_points, pc, ctx>>

\* add_entry_points from its second loop on: the entry points are synthesized
\* from the usage table the walk has left.
synthesize_entry_points ==
    LET r == synthesize_all(walk.use, types, module_entry_points, 1) IN
    /\ pc = "propagating"
    /\ walk.stmts = <<>>
    /\ walk.handle >= Len(functions)
    /\ pc' = "done"
    /\ types' = r.types
    /\ module_entry_points' = r.entry_points
    /\ ret' = [Result("add_entry_points", "", <<>>, "Ok", <<>>, None) EXCEPT !.use = walk.use]
    /\ UNCHANGED <<functions, lookup_function, function_arg_use, entries, entry_args,
                   ctx, walk>>

\* ------------------------------------------------------------------ inputs
SeqsUpTo(S, n) == UNION {[1..k -> S] : k \in 0..n}

\* Qualifiers as parsed: a prototype declares its parameters `in`, a
\* definition `inout`, so that a definition completing a prototype is seen to
\* replace them.
PrototypeQualifiers(n) == [i \in 1..n |-> "In"]
DefinitionQualifiers(n) == [i \in 1..n |-> "InOut"]

\* Usage vectors a function context can hold: one empty record per
\* stage-interface argument known when the context was created, and the flag
\* of at most one access or-ed into it.
ArgUses ==
    UNION {{Repeat({}, n)} \cup
           {[Repeat({}, n) EXCEPT ![i] = {flag}] : i \in 1..n, flag \in {"READ", "WRITE"}} :
           n \in 0..Len(entry_args)}

\* Bodies a definition can have when n functions are registered: calls go to
\* handles that exist.
Bodies(n) ==
    {<<>>} \cup {<<Call(c)>> : c \in 1..n}

\* Stage-interface arguments: argument i stands for global i.
EntryArg(i, prologue) ==
    [name |-> i, handle |-> i, binding |-> i, prologue |-> prologue]

\* The stage interface of the module: every argument but the last is visible
\* to both stages, the last to the fragment stage only.
EntryArgs ==
    [i \in 1..MaxEntryArgs |->
        EntryArg(i, IF i < MaxEntryArgs THEN {"Vertex", "Fragment"} ELSE {"Fragment"})]

InitWith(args) ==
    /\ types = InitTypes
    /\ functions = <<>>
    /\ lookup_function = <<>>
    /\ function_arg_use = <<>>
    /\ entries = <<>>
    /\ entry_args = args
    /\ module_entry_points = <<>>
    /\ pc = "registering"
    /\ ret = Result("init", "", <<>>, "Ok", <<>>, None)
    /\ ctx = NewContext
    /\ walk = NoWalk

\* ---- Spec: a module without stage interface; overloads of f over the
\* parameter lists of the ranked scalar types int and float, f(bool), and
\* f(float) spelled with the second float type of the arena.
ParamLists == SeqsUpTo({1, 2}, MaxParams) \cup {<<3>>, <<4>>}

Registrations == {<<"f", p>> : p \in ParamLists}

\* Resolved argument types of a call: ints and floats, and one bool, one
\* vector of floats, one sampler.
ArgLists == SeqsUpTo({InitTypes[1], InitTypes[2]}, MaxParams)
               \cup {<<InitTypes[3]>>, <<InitTypes[5]>>, <<InitTypes[6]>>}

\* Calls of f, and of a name that is never registered.
Calls == {<<"f", a>> : a \in ArgLists} \cup {<<"g", <<>>>>}

\* A prototype's placeholder, and a definition without calls.
FunctionInputs == {[result |-> None, body |-> <<>>]}

Init == InitWith(<<>>)

Next ==
    \/ \E function \in FunctionInputs, r \in Registrations :
          add_function(function, r[1], r[2], DefinitionQualifiers(Len(r[2])))
    \/ \E function \in FunctionInputs, r \in Registrations :
          add_prototype(function, r[1], r[2], PrototypeQualifiers(Len(r[2])))
    \/ \E c \in Calls : function_call(c[1], c[2])
    \/ \E arg_use \in ArgUses : set_arg_use(arg_use)
    \/ add_entry_points

Spec == Init /\ [][Next]_vars

\* ---- SpecEntry: a module with a stage interface, the entry functions main
\* (fragment) and vs_main (vertex) and the helper f(), whose bodies call each
\* other.
RegistrationsE == {<<"f", <<>>>>, <<"main", <<>>>>, <<"vs_main", <<>>>>}

FunctionInputsE ==
    {[result |-> None, body |-> b] : b \in Bodies(Len(functions))}

InitE == InitWith(EntryArgs)

NextE ==
    \/ \E function \in FunctionInputsE, r \in RegistrationsE :
          add_function(function, r[1], r[2], DefinitionQualifiers(Len(r[2])))
    \/ \E arg_use \in ArgUses : set_arg_use(arg_use)
    \/ add_entry_points

SpecEntry == InitE /\ [][NextE]_vars

\* ---- SpecBuiltin: type constructors and the builtin table, called in the
\* context of one function; no user function is registered.
MaxArgs == 4           \* arguments of a builtin call

\* The first n of the float parameter, for every count up to MaxArgs.
FloatArgs == {[i \in 1..n |-> 2] : n \in 0..MaxArgs}

\* Constructor targets: int, float, vec2, mat2, mat3, the struct, and the
\* sampler type (no constructor target); arguments: one int, float, vec2,
\* bool, mat2 or mat3 parameter, none, or two.
ConstructorCalls ==
    {<<TypeConstructor(ty), a>> :
        ty \in {1, 2, 5, 6, 7, 8, 11},
        a \in {<<1>>, <<2>>, <<3>>, <<4>>, <<5>>, <<6>>, <<>>, <<1, 2>>}}

BuiltinCalls ==
    {<<Function(name), a>> : name \in Builtins, a \in FloatArgs}
       \cup {<<Function("mix"), <<2, 2, 4>>>>, <<Function("mod"), <<1, 2>>>>,
             <<Function("mod"), <<2, 1>>>>}

NextBuiltin ==
    \E c \in ConstructorCalls \cup BuiltinCalls : function_call_ctx(c[1], c[2])

SpecBuiltin == Init /\ [][NextBuiltin]_vars

\* ---- SpecSampler: the texture calls of one function on its two textures
\* (HIR nodes 7 and 8) and two samplers (9 and 10), with the vec2 parameter
\* as coordinate and the float or int parameter as bias, level or index.
Textures == {7, 8}
Samplers == {9, 10}

SamplerCalls ==
    {<<Function("sampler2D"), <<t, s>>>> : t \in Textures, s \in Samplers}
       \cup {<<Function("texture"), a>> : a \in {<<t, 3>> : t \in Textures}}
       \cup {<<Function("texture"), a>> : a \in {<<t, 3, 2>> : t \in Textures}}
       \cup {<<Function("textureLod"), a>> : a \in {<<t, 3, 2>> : t \in Textures}}
       \cup {<<Function("texelFetch"), a>> : a \in {<<t, 3, 1>> : t \in Textures}}
       \cup {<<Function("textureSize"), a>> : a \in {<<t>> : t \in Textures}}
       \cup {<<Function("textureSize"), a>> : a \in {<<t, 1>> : t \in Textures}}

NextSampler ==
    \E c \in SamplerCalls : function_call_ctx(c[1], c[2])

SpecSampler == Init /\ [][NextSampler]_vars

\* ---- SpecCall: calls of the user functions f() -> float, f(float) and
\* f(vec2, vec2), registered as prototypes (parameters `in`) and definitions
\* (parameters `inout`, or `in` and `out`), lowered into one context.
RegistrationsC == {<<"f", <<>>>>, <<"f", <<2>>>>, <<"f", <<5, 5>>>>}

QualifiersC(parameters) ==
    {DefinitionQualifiers(Len(parameters))}
       \cup (IF Len(parameters) = 2 THEN {<<"In", "Out">>} ELSE {})

FunctionInputsC == {[result |-> 2, body |-> <<>>]}

\* Raw arguments: parameters, the global vec2, the swizzles, the call f();
\* sin and float() take the call f() as argument, g is never registered.
CallsC ==
    {<<Function("f"), a>> :
        a \in {<<>>, <<1>>, <<2>>, <<14>>, <<3, 3>>, <<12, 13>>, <<12, 3>>, <<3, 12>>,
               <<11, 12>>}}
       \cup {<<Function("g"), <<>>>>, <<Function("sin"), <<14>>>>,
             <<TypeConstructor(2), <<14>>>>}

NextCall ==
    \/ \E function \in FunctionInputsC, r \in RegistrationsC :
          \E q \in QualifiersC(r[2]) : add_function(function, r[1], r[2], q)
    \/ \E function \in FunctionInputsC, r \in RegistrationsC :
          add_prototype(function, r[1], r[2], PrototypeQualifiers(Len(r[2])))
    \/ \E c \in CallsC : function_call_ctx(c[1], c[2])

SpecCall == Init /\ [][NextCall]_vars

\* ---- SpecUsage: the helpers f, g and h, whose bodies call the functions
\* registered before them at any depth of nesting, f also as a prototype that
\* is defined later; add_entry_points taken statement by statement.
RegistrationsU == {<<"f", <<>>>>, <<"g", <<>>>>, <<"h", <<>>>>}
PrototypesU == {<<"f", <<>>>>}

\* The body of a definition, made when n functions are registered, that
\* calls c: the call stands at the top, in the reject branch of an if inside a
\* block, in the default of a switch inside a loop body, or in the continuing
\* block of a loop.
BodyOf(n, c) ==
    CASE (n + c) % 4 = 0 -> <<Call(c)>>
      [] (n + c) % 4 = 1 ->
            <<Compound("Loop", << <<>>, <<Call(c)>> >>)>>
      [] (n + c) % 4 = 2 ->
            <<Compound("Block", << <<Compound("If", << <<>>, <<Call(c)>> >>)>> >>)>>
      [] OTHER ->
            <<Compound("Loop", << <<Compound("Switch", << <<>>, <<Call(c)>> >>)>>, <<>> >>)>>

\* Bodies without a call, with one call, and with the calls of two functions
\* in the branches of an if.
BodiesU(n) ==
    {<<>>} \cup {BodyOf(n, c) : c \in 1..n}
       \cup {<<Compound("If", << <<Call(d - 1)>>, <<Call(d)>> >>)>> : d \in 2..n}

FunctionInputsU == {[result |-> None, body |-> b] : b \in BodiesU(Len(functions))}

\* Usage vectors of contexts created when one and when two stage-interface
\* arguments were known; stage-interface arguments are never removed, so a
\* context created later is never shorter (the guard in NextUsage).
ArgUsesU == {<<{"READ"}>>, <<{}, {"WRITE"}>>, <<{"READ"}, {}>>}

\* The parser writes the usage vector of a function's context right after the
\* definition is registered, before anything else is parsed.
NextUsage ==
    LET pending == ret.op = "add_function" /\ ret.status = "Ok" IN
    \/ /\ ~pending
       /\ \E function \in FunctionInputsU, r \in RegistrationsU :
             add_function(function, r[1], r[2], DefinitionQualifiers(Len(r[2])))
    \/ /\ ~pending
       /\ \E function \in FunctionInputs, r \in PrototypesU :
             add_prototype(function, r[1], r[2], PrototypeQualifiers(Len(r[2])))
    \/ \E arg_use \in ArgUsesU :
          /\ \A k \in 1..Len(function_arg_use) : Len(function_arg_use[k]) <= Len(arg_use)
          /\ set_arg_use(arg_use)
    \/ /\ ~pending
       /\ begin_usage_pass
    \/ check_statement
    \/ next_function
    \/ synthesize_entry_points

SpecUsage == InitE /\ [][NextUsage]_vars

\* ---- SpecResult: prototypes and definitions of f() and f(float), with and
\* without a result type, and the calls of them in a context.
MaxStatements == 2   \* statements of a body when a call is still lowered into it

RegistrationsR == {<<"f", <<>>>>, <<"f", <<2>>>>}

FunctionInputsR == {[result |-> None, body |-> <<>>], [result |-> 2, body |-> <<>>]}

CallsR == {<<Function("f"), <<>>>>, <<Function("f"), <<2>>>>}

NextResult ==
    \/ \E function \in FunctionInputsR, r \in RegistrationsR :
          add_function(function, r[1], r[2], DefinitionQualifiers(Len(r[2])))
    \/ \E function \in FunctionInputsR, r \in RegistrationsR :
          add_prototype(function, r[1], r[2], PrototypeQualifiers(Len(r[2])))
    \/ /\ Len(ctx.body) < MaxStatements
       /\ \E c \in CallsR : function_call_ctx(c[1], c[2])

SpecResult == Init /\ [][NextResult]_vars

\* ---- SpecTable: definitions and prototypes of ordinary functions and of
\* the entry function main, accepted and rejected, and the usage pass over
\* what they registered.
RegistrationsT == {<<"f", <<>>>>, <<"g", <<>>>>, <<"main", <<>>>>}

NextTable ==
    \/ \E function \in FunctionInputsU, r \in RegistrationsT :
          add_function(function, r[1], r[2], DefinitionQualifiers(Len(r[2])))
    \/ \E function \in FunctionInputs, r \in RegistrationsT :
          add_prototype(function, r[1], r[2], PrototypeQualifiers(Len(r[2])))
    \/ begin_usage_pass
    \/ check_statement
    \/ next_function
    \/ synthesize_entry_points

SpecTable == InitE /\ [][NextTable]_vars

\* ================================================================== properties
\* The overload set a call of `name` sees.
Overloads(name) ==
    IF name \in DOMAIN lookup_function THEN lookup_function[name] ELSE <<>>

\* Every parameter type of decl equals the argument's resolved type.
ExactFor(decl, args) ==
    /\ Len(decl.parameters) = Len(args)
    /\ \A i \in 1..Len(args) : types[decl.parameters[i]] = args[i]

Ranked(inner) ==
    /\ inner.tag \in {"Scalar", "Vector"}
    /\ inner.kind \in {"Sint", "Uint", "Float"}

Rank(inner) == type_power(inner.kind)

\* decl has the right parameter count and every parameter that differs from
\* its argument is reached by widening: both ranked, parameter rank >= argument
\* rank.
WideningFor(decl, args) ==
    /\ Len(decl.parameters) = Len(args)
    /\ \A i \in 1..Len(args) :
          types[decl.parameters[i]] # args[i] =>
             /\ Ranked(types[decl.parameters[i]])
             /\ Ranked(args[i])
             /\ Rank(types[decl.parameters[i]]) >= Rank(args[i])

ExactIndices(name, args) ==
    {i \in 1..Len(Overloads(name)) : ExactFor(Overloads(name)[i], args)}

\* The declarations that survive as non-exact candidates.
WideningIndices(name, args) ==
    {i \in 1..Len(Overloads(name)) :
        WideningFor(Overloads(name)[i], args) /\ ~ExactFor(Overloads(name)[i], args)}

Called == ret.op = "function_call"

\* C1: when the overload set of the callee holds a declaration whose parameter
\* types all equal the argument types, the call succeeds and calls that
\* declaration, wherever it stands and however many other declarations are
\* viable by widening only.
C1_ExactMatchIsCalled ==
    (Called /\ ExactIndices(ret.name, ret.parameters) # {}) =>
        /\ ret.status = "Ok"
        /\ ret.decl \in ExactIndices(ret.name, ret.parameters)
        /\ ret.handle = Overloads(ret.name)[ret.decl].handle

\* C1 witness: an exact match in the last place, after two declarations that
\* are viable by widening only, has been called.
C1_Witness ==
    /\ Called
    /\ ret.status = "Ok"
    /\ Len(Overloads(ret.name)) = 3
    /\ ret.decl = 3
    /\ ExactIndices(ret.name, ret.parameters) = {3}
    /\ WideningIndices(ret.name, ret.parameters) = {1, 2}

\* C2: without an exact match, two or more surviving candidates make the call
\* fail as ambiguous, none (the name unregistered included) makes it fail as
\* unknown, and exactly one is called.
C2_NonExactOutcome ==
    (Called /\ ExactIndices(ret.name, ret.parameters) = {}) =>
        LET survivors == WideningIndices(ret.name, ret.parameters) IN
        /\ Cardinality(survivors) >= 2 =>
              /\ ret.status = "Err"
              /\ ret.msg = <<"Ambiguous best function for", ret.name>>
        /\ survivors = {} =>
              /\ ret.status = "Err"
              /\ ret.msg = <<"Unknown function", ret.name>>
        /\ Cardinality(survivors) = 1 =>
              /\ ret.status = "Ok"
              /\ ret.decl \in survivors
              /\ ret.handle = Overloads(ret.name)[ret.decl].handle

\* C2 witness: a call with two arguments, no exact match and two surviving
\* candidates has failed.
C2_Witness ==
    /\ Called
    /\ ret.status = "Err"
    /\ Len(ret.parameters) = 2
    /\ ExactIndices(ret.name, ret.parameters) = {}
    /\ Cardinality(WideningIndices(ret.name, ret.parameters)) = 2
    /\ Len(Overloads(ret.name)) = 3

\* C3: the declaration called has the right parameter count and, wherever a
\* parameter type differs from the argument type, two ranked scalar kinds with
\* the parameter's rank not below the argument's; a declaration eliminated for
\* a pair without that is never called and never counts towards an ambiguity.
C3_CalledIsWidening ==
    Called =>
        /\ ret.status = "Ok" => WideningFor(Overloads(ret.name)[ret.decl], ret.parameters)
        /\ ret.msg = <<"Ambiguous best function for", ret.name>> =>
              Cardinality(WideningIndices(ret.name, ret.parameters)) >= 2

\* C3 witness: a call was resolved by widening while the overload set held a
\* declaration of the right count that narrows (parameter rank below the
\* argument's) and another one of the right count with an unranked kind.
C3_Witness ==
    /\ Called
    /\ ret.status = "Ok"
    /\ ret.decl \in WideningIndices(ret.name, ret.parameters)
    /\ \E j \in 1..Len(Overloads(ret.name)) :
          LET d == Overloads(ret.name)[j] IN
          /\ Len(d.parameters) = Len(ret.parameters)
          /\ \E i \in 1..Len(ret.parameters) :
                /\ Ranked(types[d.parameters[i]]) /\ Ranked(ret.parameters[i])
                /\ Rank(types[d.parameters[i]]) < Rank(ret.parameters[i])
    /\ \E j \in 1..Len(Overloads(ret.name)) :
          LET d == Overloads(ret.name)[j] IN
          /\ Len(d.parameters) = Len(ret.parameters)
          /\ \E i \in 1..Len(ret.parameters) :
                /\ types[d.parameters[i]] # ret.parameters[i]
                /\ ~Ranked(types[d.parameters[i]]) \/ ~Ranked(ret.parameters[i])

\* Two parameter-type sequences are identical: same length, pairwise equal
\* types.
IdenticalTypes(p, q) ==
    /\ Len(p) = Len(q)
    /\ \A i \in 1..Len(p) : types[p[i]] = types[q[i]]

\* C9: no overload set of the lookup table holds two declarations with
\* identical parameter-type sequences.
C9_NoDuplicateOverload ==
    \A name \in DOMAIN lookup_function :
        \A i, j \in 1..Len(lookup_function[name]) :
            i # j => ~IdenticalTypes(lookup_function[name][i].parameters,
                                     lookup_function[name][j].parameters)

\* C9 witness: a registration of f(float), spelled with the arena's second
\* float type, was rejected by an overload set of three declarations that
\* holds f(float) spelled with the first.
C9_Witness ==
    /\ ret.op \in {"add_function", "add_prototype"}
    /\ ret.status = "Err"
    /\ ret.parameters = <<4>>
    /\ Len(Overloads("f")) = 3
    /\ \E i \in 1..3 : Overloads("f")[i].parameters = <<2>>

\* C10: a redefinition fails and changes nothing: add_function of a non-entry
\* name with the parameter types of a defined declaration returns "Function
\* already defined", add_prototype with the parameter types of any declaration
\* returns "Prototype already defined", and the function arena, the usage
\* table and the lookup table (every declaration's handle, qualifiers, defined
\* and void flags) are left as they were.
C10_RedefinitionChangesNothing ==
    [][ /\ ( /\ ret'.op = "add_function"
             /\ ret'.name \notin DOMAIN entry_points
             /\ \E i \in 1..Len(Overloads(ret'.name)) :
                   /\ Overloads(ret'.name)[i].defined
                   /\ IdenticalTypes(Overloads(ret'.name)[i].parameters, ret'.parameters) )
           => /\ ret'.status = "Err"
              /\ ret'.msg = <<"Function already defined">>
              /\ UNCHANGED <<functions, function_arg_use, lookup_function>>
        /\ ( /\ ret'.op = "add_prototype"
             /\ \E i \in 1..Len(Overloads(ret'.name)) :
                   IdenticalTypes(Overloads(ret'.name)[i].parameters, ret'.parameters) )
           => /\ ret'.status = "Err"
              /\ ret'.msg = <<"Prototype already defined">>
              /\ UNCHANGED <<functions, function_arg_use, lookup_function>>
        /\ ret'.status = "Err" =>
              UNCHANGED <<functions, function_arg_use, lookup_function>>
      ]_vars

\* C10 witness: a definition was rejected as "Function already defined" by the
\* second declaration of an overload set that also holds a prototype.
C10_Witness ==
    /\ ret.op = "add_function"
    /\ ret.status = "Err"
    /\ ret.msg = <<"Function already defined">>
    /\ Len(Overloads(ret.name)) >= 2
    /\ IdenticalTypes(Overloads(ret.name)[2].parameters, ret.parameters)
    /\ \E i \in 1..Len(Overloads(ret.name)) : ~Overloads(ret.name)[i].defined

\* ------------------------------------------------------------------ entry points
Synthesized == pc = "done"

EntryPoints == 1..Len(module_entry_points)

\* The function, stage and synthesized function of the k-th entry, and the
\* usage vector of its function after the propagation pass.
EntryFunction(k) == entries[k][3]
EntryStage(k) == entries[k][2]
EntryFn(k) == module_entry_points[k].function
EntryUse(k) == ret.use[EntryFunction(k)]

\* Stage-interface argument i is a parameter of the k-th entry function.
IsParameter(k, i) ==
    \E a \in 1..Len(EntryFn(k).arguments) :
        EntryFn(k).arguments[a].name = entry_args[i].name

\* The body of the k-th entry function stores into the global of argument i.
StoresInto(k, i) ==
    \E j \in 1..Len(EntryFn(k).body) :
        /\ EntryFn(k).body[j].kind = "Store"
        /\ EntryFn(k).expressions[EntryFn(k).body[j].pointer]
              = GlobalVariable(entry_args[i].handle)

\* C4: a stage-interface argument with a usage record for the entry's function
\* is a parameter of the entry function iff the record (after the propagation
\* pass) has READ and the argument's prologue mask holds the entry's stage; the
\* parameters come in stage-interface order; the k-th statement of the body
\* stores FunctionArgument(k - 1) into the global of the k-th parameter.
C4_ReadArgumentsAreParameters ==
    Synthesized =>
        /\ Len(module_entry_points) = Len(entries)
        /\ \A k \in EntryPoints :
              LET fn == EntryFn(k) IN
              /\ \A i \in 1..Len(entry_args) :
                    i <= Len(EntryUse(k)) =>
                       (IsParameter(k, i) <=>
                           /\ "READ" \in EntryUse(k)[i]
                           /\ EntryStage(k) \in entry_args[i].prologue)
              /\ \A a, b \in 1..Len(fn.arguments) :
                    a < b => fn.arguments[a].name < fn.arguments[b].name
              /\ \A a \in 1..Len(fn.arguments) :
                    /\ fn.arguments[a].ty
                          = global_variables[entry_args[fn.arguments[a].name].handle].ty
                    /\ fn.body[a].kind = "Store"
                    /\ fn.expressions[fn.body[a].pointer]
                          = GlobalVariable(entry_args[fn.arguments[a].name].handle)
                    /\ fn.expressions[fn.body[a].value] = FunctionArgument(a - 1)

\* C4 witness: one entry function has two parameters, another one has a
\* single parameter that is not the first stage-interface argument, and one
\* has none for an argument it reads because the mask leaves its stage out.
C4_Witness ==
    /\ Synthesized
    /\ \E k \in EntryPoints : Len(EntryFn(k).arguments) = 2
    /\ \E k \in EntryPoints :
          /\ Len(EntryFn(k).arguments) = 1
          /\ EntryFn(k).arguments[1].name = 2
    /\ \E k \in EntryPoints : \E i \in 1..Len(EntryUse(k)) :
          /\ "READ" \in EntryUse(k)[i]
          /\ EntryStage(k) \notin entry_args[i].prologue
          /\ ~IsParameter(k, i)

\* C5 as stated: an argument without usage record for the entry's function is
\* a parameter, stored into its global, whenever its mask holds the stage.
C5_NoRecordDefaultsToUsed ==
    Synthesized =>
        \A k \in EntryPoints : \A i \in 1..Len(entry_args) :
            (i > Len(EntryUse(k)) /\ EntryStage(k) \in entry_args[i].prologue) =>
                IsParameter(k, i) /\ StoresInto(k, i)

\* C5 amended: an argument without usage record for the entry's function is
\* never a parameter of the entry function and never stored into its global,
\* whatever its prologue mask.
C5_NoRecordIsUnused ==
    Synthesized =>
        \A k \in EntryPoints : \A i \in 1..Len(entry_args) :
            i > Len(EntryUse(k)) => ~IsParameter(k, i) /\ ~StoresInto(k, i)

\* C5 witness: an entry function with a parameter for the first argument and
\* no usage record for the second, whose mask holds the entry's stage.
C5_Witness ==
    /\ Synthesized
    /\ \E k \in EntryPoints :
          /\ Len(EntryUse(k)) = 1
          /\ IsParameter(k, 1)
          /\ Len(entry_args) >= 2
          /\ EntryStage(k) \in entry_args[2].prologue

\* Statement j of fn emits an expression of the given kind.
Emits(fn, j, kind) ==
    /\ fn.body[j].kind = "Emit"
    /\ fn.expressions[fn.body[j].first].kind = kind

\* C6: the body of an entry function is: the stores, then the one call (to the
\* recorded function, without arguments or result), then the loads with their
\* Emit statements, then the Emit of the composition if any, then the Return.
C6_BodyOrder ==
    Synthesized =>
        \A k \in EntryPoints :
            LET fn == EntryFn(k)
                n == Len(fn.body)
                calls == {j \in 1..n : fn.body[j].kind = "Call"}
            IN
            /\ Cardinality(calls) = 1
            /\ \A c \in calls :
                  /\ fn.body[c].function = EntryFunction(k)
                  /\ fn.body[c].arguments = <<>>
                  /\ fn.body[c].result = None
                  /\ \A j \in 1..n : fn.body[j].kind = "Store" => j < c
                  /\ \A j \in 1..n : fn.body[j].kind = "Emit" => j > c
            /\ \A j \in 1..n : fn.body[j].kind \in {"Store", "Call", "Emit", "Return"}
            /\ \A j \in 1..n : fn.body[j].kind = "Emit" =>
                  Emits(fn, j, "Load") \/ Emits(fn, j, "Compose")
            /\ \A j, l \in 1..n : Emits(fn, j, "Compose") /\ Emits(fn, l, "Load") => l < j
            /\ \A j \in 1..n : fn.body[j].kind = "Return" <=> j = n

\* C6 witness: an entry function whose body has a store, the call, two loads,
\* the composition and the return.
C6_Witness ==
    /\ Synthesized
    /\ \E k \in EntryPoints :
          LET fn == EntryFn(k) IN
          /\ fn.body[1].kind = "Store"
          /\ Cardinality({j \in 1..Len(fn.body) : Emits(fn, j, "Load")}) = 2
          /\ \E j \in 1..Len(fn.body) : Emits(fn, j, "Compose")

\* The stage-interface arguments written by the k-th entry's function.
Written(k) == {i \in 1..Len(entry_args) : i <= Len(EntryUse(k)) /\ "WRITE" \in EntryUse(k)[i]}

\* The layout sizes of the first n members, summed.
RECURSIVE SizeOfMembers(_, _)
SizeOfMembers(members, n) ==
    IF n = 0 THEN 0
    ELSE SizeOfMembers(members, n - 1) + span_of(types[members[n].ty])

\* C7: the output struct has one member per written stage-interface argument,
\* in stage-interface order; a member's offset is the sum of the sizes of the
\* members before it and the span the sum of all sizes; with a member the
\* entry function has the struct as result type and returns its composition,
\* without one it has no result and returns no value.
C7_OutputStruct ==
    Synthesized =>
        \A k \in EntryPoints :
            LET fn == EntryFn(k)
                value == fn.body[Len(fn.body)].value
            IN
            IF Written(k) = {}
            THEN fn.result = None /\ value = None
            ELSE /\ fn.result \in 1..Len(types)
                 /\ types[fn.result].tag = "Struct"
                 /\ LET members == types[fn.result].members IN
                    /\ Len(members) = Cardinality(Written(k))
                    /\ \A j \in 1..Len(members) :
                          /\ members[j].name \in Written(k)
                          /\ members[j].ty
                                = global_variables[entry_args[members[j].name].handle].ty
                          /\ members[j].offset = SizeOfMembers(members, j - 1)
                    /\ \A j, l \in 1..Len(members) :
                          j < l => members[j].name < members[l].name
                    /\ types[fn.result].span = SizeOfMembers(members, Len(members))
                    /\ value \in 1..Len(fn.expressions)
                    /\ fn.expressions[value].kind = "Compose"
                    /\ fn.expressions[value].ty = fn.result
                    /\ Len(fn.expressions[value].components) = Len(members)
                    /\ \A j \in 1..Len(members) :
                          LET load == fn.expressions[fn.expressions[value].components[j]] IN
                          /\ load.kind = "Load"
                          /\ fn.expressions[load.pointer]
                                = GlobalVariable(entry_args[members[j].name].handle)

\* C7 witness: an entry function returning a struct of two members of
\* different sizes, and another one returning nothing.
C7_Witness ==
    /\ Synthesized
    /\ \E k \in EntryPoints :
          /\ EntryFn(k).result # None
          /\ Len(types[EntryFn(k).result].members) = 2
          /\ types[EntryFn(k).result].members[2].offset = 4
          /\ types[EntryFn(k).result].span = 12
    /\ \E k \in EntryPoints : EntryFn(k).result = None

\* C8: the module holds one EntryPoint per (name, stage) pair recorded as an
\* entry: no two entry points have the same name and stage.
C8_OneEntryPointPerNameAndStage ==
    Synthesized =>
        \A k, l \in EntryPoints :
            k # l => ~( /\ module_entry_points[k].name = module_entry_points[l].name
                        /\ module_entry_points[k].stage = module_entry_points[l].stage )

\* ------------------------------------------------------------------ calls in a context
Lowered == ret.op = "function_call_ctx"

\* The expressions the call has added to the arena.
AddedExpressions ==
    SubSeq(ctx.expressions, Len(ret.before.expressions) + 1, Len(ctx.expressions))

\* The resolved type of the i-th argument of the call, lowered as a value in
\* the context the call found.
ArgumentType(i) ==
    LET lo == lower_expect(ret.before, types, ret.parameters[i], FALSE)
    IN resolve_type(lo.ctx, types, lo.value)

\* C11: a type constructor with one argument whose type is a vector and a
\* scalar target fails with "Bad cast" and adds no cast expression.
C11_VectorToScalarIsBadCast ==
    ( /\ Lowered
      /\ ret.fc.kind = "TypeConstructor"
      /\ Len(ret.parameters) = 1
      /\ types[ret.fc.ty].tag = "Scalar"
      /\ ArgumentType(1).tag = "Vector" )
    => /\ ret.status = "Err"
       /\ ret.msg = <<"Bad cast">>
       /\ \A i \in 1..Len(AddedExpressions) : AddedExpressions[i].kind # "As"

\* The argument counts the builtin table accepts for a name.
Accepted(name) ==
    CASE name = "atan" -> {1, 2}
      [] name = "texture" -> {2, 3}
      [] name = "textureSize" -> {1, 2}
      [] name \in {"sampler2D", "mod"} \cup BinaryMath \cup Comparisons -> {2}
      [] name \in {"textureLod", "texelFetch", "mix"} \cup Ternary -> {3}
      [] name \in Unary \cup Relationals -> {1}

\* C12: a builtin called with an argument count its name does not accept
\* returns the argument-count error with the name and the actual count and
\* adds no expression; called with an accepted count it never returns that
\* error.
C12_BuiltinArity ==
    (Lowered /\ ret.fc.kind = "Function" /\ ret.name \in Builtins) =>
        IF Len(ret.parameters) \in Accepted(ret.name)
        THEN ret.msg # <<"wrong_function_args", ret.name>>
        ELSE /\ ret.status = "Err"
             /\ ret.msg = <<"wrong_function_args", ret.name>>
             /\ ret.actual = Len(ret.parameters)
             /\ AddedExpressions = <<>>
             /\ ctx.samplers = ret.before.samplers

\* C12 witness: atan was called with three arguments and returned the
\* argument-count error.
C12_Witness ==
    /\ Lowered
    /\ ret.name = "atan"
    /\ Len(ret.parameters) = 3
    /\ ret.status = "Err"
    /\ ret.actual = 3

\* The expression of the i-th argument of the call, lowered as a value in the
\* context the call found.
Argument(i) == lower_expect(ret.before, types, ret.parameters[i], FALSE).value

\* The texture functions that need a pairing.
Sampling == {"texture", "textureLod", "texelFetch"}

BadCall(name) ==
    CASE name = "texture" -> <<"Bad call to texture">>
      [] name = "textureLod" -> <<"Bad call to textureLod">>
      [] name = "texelFetch" -> <<"Bad call to texelFetch">>

\* What one call does to the pairing: sampler2D adds no expression, records
\* its second argument as the sampler of its first and returns the first; a
\* sampling call succeeds iff its image has a sampler in the map it found,
\* samples with that sampler, fails with "Bad call to <name>" otherwise and
\* leaves the map alone; textureSize succeeds without a pairing.
C13_Call ==
    (Lowered /\ ret.fc.kind = "Function" /\ Len(ret.parameters) \in Accepted(ret.name)) =>
        LET before == ret.before.samplers IN
        /\ ret.name = "sampler2D" =>
              /\ ret.status = "Ok"
              /\ AddedExpressions = <<>>
              /\ ret.handle = Argument(1)
              /\ DOMAIN ctx.samplers = (DOMAIN before) \cup {Argument(1)}
              /\ ctx.samplers[Argument(1)] = Argument(2)
              /\ \A k \in DOMAIN before : k # Argument(1) => ctx.samplers[k] = before[k]
        /\ ret.name \in Sampling =>
              /\ ret.status = "Ok" <=> Argument(1) \in DOMAIN before
              /\ ret.status = "Err" => ret.msg = BadCall(ret.name)
              /\ ctx.samplers = before
              /\ (ret.status = "Ok" /\ ret.name \in {"texture", "textureLod"}) =>
                    /\ ret.handle = Len(ctx.expressions)
                    /\ ctx.expressions[ret.handle].kind = "ImageSample"
                    /\ ctx.expressions[ret.handle].image = Argument(1)
                    /\ ctx.expressions[ret.handle].sampler = before[Argument(1)]
              /\ (ret.status = "Ok" /\ ret.name = "texelFetch") =>
                    /\ ctx.expressions[ret.handle].kind = "ImageLoad"
                    /\ ctx.expressions[ret.handle].image = Argument(1)
        /\ ret.name = "textureSize" =>
              /\ ret.status = "Ok"
              /\ ctx.samplers = before

\* The pairings of a context change by a sampler2D call only.
C13_Step ==
    ctx'.samplers # ctx.samplers =>
        /\ ret'.op = "function_call_ctx"
        /\ ret'.name = "sampler2D"
        /\ ret'.before = ctx

\* C13: over any sequence of calls in one context, sampler2D(tex, samp) adds
\* no expression, pairs samp with tex and returns tex; texture, textureLod and
\* texelFetch on an image succeed iff a sampler2D call has paired it before,
\* sample with the sampler of the most recent pairing, and fail with "Bad
\* call to <name>" without one; textureSize needs no pairing.
C13_SamplerPairing == [](C13_Call) /\ [][C13_Step]_vars

\* C13 witness: texture has sampled the first texture with the second
\* sampler while the second texture was paired with the first sampler.
C13_Witness ==
    /\ Lowered
    /\ ret.name = "texture"
    /\ ret.status = "Ok"
    /\ DOMAIN ret.before.samplers = {7, 8}
    /\ ret.before.samplers[8] = 9
    /\ Argument(1) = 7
    /\ ctx.expressions[ret.handle].sampler = 10

\* A call of a user-defined function has been lowered.
UserCall ==
    /\ Lowered
    /\ ret.fc.kind = "Function"
    /\ ret.name \notin Builtins
    /\ ret.status = "Ok"

\* The declaration the call resolved to.
CalledDecl ==
    LET ds == lookup_function[ret.name]
    IN ds[CHOOSE k \in 1..Len(ds) : ds[k].handle = ret.function]

\* The statements the call appended to the body, and among them the place of
\* the statement of the call itself (the last Call statement).
NewBody == SubSeq(ctx.body, Len(ret.before.body) + 1, Len(ctx.body))

CallAt ==
    CHOOSE j \in 1..Len(NewBody) :
        /\ NewBody[j].kind = "Call"
        /\ \A k \in (j + 1)..Len(NewBody) : NewBody[k].kind # "Call"

\* The i-th argument needs a proxy: write access, a vector, lowered to a
\* swizzle.
Proxied(i) ==
    LET lo == lower_expect(ret.before, types, ret.parameters[i], TRUE) IN
    /\ is_lhs(CalledDecl.qualifiers[i])
    /\ lo.status = "Ok"
    /\ lo.ctx.expressions[lo.value].kind = "Swizzle"
    /\ resolve_type(lo.ctx, types, lo.value).tag = "Vector"

ProxyPositions ==
    LET Test(i) == Proxied(i)
    IN SelectSeq([i \in 1..Len(ret.parameters) |-> i], Test)

\* The stores that follow the statement of the call.
WriteBacks ==
    LET Test(stmt) == stmt.kind = "Store"
    IN SelectSeq(SubSeq(NewBody, CallAt + 1, Len(NewBody)), Test)

\* C14: in the lowering of a call of a user function, every argument with
\* write access that is a vector lowered to a swizzle gets a fresh local
\* variable, the swizzle's value is stored into it before the statement of the
\* call, the call's argument at that position is the temporary and not the
\* swizzle, after the call exactly one store of the temporary's value into
\* the original target follows per such argument, in argument order, and the
\* call has one argument per call argument.
C14_ProxyWriteBack ==
    UserCall =>
        LET call == NewBody[CallAt]
            n == Len(ret.parameters)
        IN
        /\ call.function = ret.function
        /\ Len(call.arguments) = n
        /\ \A i \in 1..n :
              LET e == call.arguments[i] IN
              IF Proxied(i)
              THEN /\ e > Len(ret.before.expressions)
                   /\ ctx.expressions[e].kind = "LocalVariable"
                   /\ ctx.expressions[e].variable > Len(ret.before.locals)
                   /\ types[ctx.locals[ctx.expressions[e].variable].ty].tag = "Vector"
                   /\ \A j \in 1..n : (j # i /\ Proxied(j)) =>
                         ctx.expressions[call.arguments[j]] # ctx.expressions[e]
                   /\ \E k \in 1..(CallAt - 1) :
                         /\ NewBody[k].kind = "Store"
                         /\ NewBody[k].pointer = e
                         /\ ctx.expressions[NewBody[k].value].kind = "Swizzle"
              ELSE ctx.expressions[e].kind # "LocalVariable"
        /\ Len(WriteBacks) = Len(ProxyPositions)
        /\ \A k \in 1..Len(ProxyPositions) :
              LET temp == call.arguments[ProxyPositions[k]]
                  target == lower_expect(ret.before, types,
                                         ret.parameters[ProxyPositions[k]], TRUE)
              IN
              /\ ctx.expressions[WriteBacks[k].value] = Load(temp)
              /\ ctx.expressions[WriteBacks[k].pointer]
                    = target.ctx.expressions[target.value]

\* C14 witness: a call with two swizzled vectors passed for inout parameters
\* has been lowered with two temporaries and two write-backs.
C14_Witness ==
    /\ UserCall
    /\ ret.parameters = <<12, 13>>
    /\ ProxyPositions = <<1, 2>>
    /\ Len(WriteBacks) = 2
    /\ ctx.expressions[WriteBacks[2].pointer] = Swizzle(2, 3)

\* The lower_expect invocations the call made on its i-th raw argument, the
\* write-backs aside.
Lowerings(i) ==
    {k \in 1..Len(ret.lowered) :
        /\ ret.lowered[k].hir = ret.parameters[i]
        /\ ret.lowered[k].pass # "write_back"}

\* C20: a call that has been resolved, of a type constructor, a builtin or a
\* user function, has lowered each of its raw arguments exactly once, and an
\* argument that is a call has put one Call statement into the body.
C20_ArgumentsLoweredOnce ==
    (Lowered /\ ret.status = "Ok") =>
        /\ \A i \in 1..Len(ret.parameters) :
              Cardinality(Lowerings(i))
                 = Cardinality({j \in 1..Len(ret.parameters) :
                                   ret.parameters[j] = ret.parameters[i]})
        /\ Cardinality({k \in 1..Len(NewBody) : NewBody[k].kind = "Call"})
              = (IF UserCall THEN 1 ELSE 0)
                + Cardinality({i \in 1..Len(ret.parameters) :
                                  ctx.hir_exprs[ret.parameters[i]].kind = "Call"})

\* ------------------------------------------------------------------ claims: usage pass
\* The flags of a usage vector at an index, none where the vector has no
\* record.
Flags(v, i) == IF i <= Len(v) THEN v[i] ELSE {}

\* C15: after the step of a call statement from caller C to callee F, C's
\* usage vector is at least as long as F's and holds, at every index of F's
\* vector, every flag F has there.
C15_StepContainsCallee ==
    (pc = "propagating" /\ walk.caller # None) =>
        LET C == walk.use[walk.caller]
            F == walk.use[walk.callee]
        IN /\ Len(C) >= Len(F)
           /\ \A i \in 1..Len(F) : F[i] \subseteq C[i]

\* The functions a block calls, at any depth of nesting.
RECURSIVE calls_of(_)
calls_of(block) ==
    IF block = <<>> THEN {}
    ELSE LET stmt == Head(block) IN
         (IF IsCompound(stmt) THEN calls_of(chain(stmt.blocks))
          ELSE IF stmt.kind = "Call" THEN {stmt.function}
          ELSE {}) \cup calls_of(Tail(block))

Callees(f) == calls_of(functions[f].body)

\* The functions reachable from the set S through chains of at most n more
\* calls.
RECURSIVE reach(_, _)
reach(S, n) == IF n = 0 THEN S ELSE reach(S \cup UNION {Callees(f) : f \in S}, n - 1)

Reachable(f) == reach(Callees(f), Len(functions))

\* The loop over the functions has processed the last statement of the last
\* function.
PassDone ==
    /\ pc = "propagating"
    /\ walk.stmts = <<>>
    /\ walk.handle >= Len(functions)

CalleesFirst == \A f \in 1..Len(functions) : \A c \in Callees(f) : c < f

\* C16: when every callee has a lower index than its callers, after the
\* single pass each function's usage vector holds, at every index, every flag
\* that any function reachable from it through calls had there before the
\* pass.
C16_SinglePassTransitive ==
    (PassDone /\ CalleesFirst) =>
        \A f \in 1..Len(functions) : \A g \in Reachable(f) :
            \A i \in 1..Len(walk.start[g]) :
                walk.start[g][i] \subseteq Flags(walk.use[f], i)

\* One step of the pass: vectors do not get shorter, flags are not cleared,
\* and the step of a call from C to another function changes C's vector only.
GrowsOnly ==
    (pc = "propagating" /\ pc' = "propagating") =>
        /\ DOMAIN walk'.use = DOMAIN walk.use
        /\ \A f \in DOMAIN walk.use :
              /\ Len(walk'.use[f]) >= Len(walk.use[f])
              /\ \A i \in 1..Len(walk.use[f]) : walk.use[f][i] \subseteq walk'.use[f][i]
        /\ (walk'.caller # None /\ walk'.caller # walk'.callee) =>
              \A f \in DOMAIN walk.use : f # walk'.caller => walk'.use[f] = walk.use[f]
        /\ walk'.caller = None => walk'.use = walk.use

\* C17: throughout the usage pass no function's usage vector gets shorter and
\* no flag that is set is cleared, and a step for a call from C to a different
\* function F changes only C's vector.
C17_UsageOnlyGrows == [][GrowsOnly]_vars

\* C17 witness: the step of a call to another function has added a flag to
\* the caller's vector, which held a flag of its own.
C17_Witness ==
    /\ pc = "propagating"
    /\ walk.caller # None
    /\ walk.caller # walk.callee
    /\ \E i \in 1..Len(walk.start[walk.caller]) : walk.start[walk.caller][i] # {}
    /\ \E i \in 1..Len(walk.start[walk.caller]) :
          walk.use[walk.caller][i] # walk.start[walk.caller][i]

\* Every caller's vector holds, at every index of each callee's vector, the
\* callee's flags.
Stabilized(use) ==
    \A f \in 1..Len(functions) : \A c \in Callees(f) :
        \A i \in 1..Len(use[c]) : use[c][i] \subseteq Flags(use[f], i)

\* C18: a pass over usage vectors that are already stabilized changes no
\* flag of any function, at any of its steps.
C18_StabilizedPassChangesNoFlag ==
    (pc = "propagating" /\ Stabilized(walk.start)) =>
        \A f \in 1..Len(walk.use) :
            \A i \in 1..Len(walk.use[f]) : walk.use[f][i] = Flags(walk.start[f], i)

\* C18 witness: a pass is over in which a function called another one whose
\* flag it held before the pass.
C18_Witness ==
    /\ PassDone
    /\ Stabilized(walk.start)
    /\ \E f \in 1..Len(functions) : \E c \in Callees(f) :
          /\ c # f
          /\ \E i \in 1..Len(walk.start[c]) : walk.start[c][i] # {}

\* ------------------------------------------------------------------ claims: declarations
\* The place in the overload set of ret'.name, before the step, of the
\* declaration with the parameter types of the registration; 0 when there is
\* none.
Registered ==
    LET same == {k \in 1..Len(Overloads(ret'.name)) :
                    IdenticalTypes(Overloads(ret'.name)[k].parameters, ret'.parameters)}
    IN IF same = {} THEN 0 ELSE CHOOSE k \in same : \A m \in same : k <= m

\* A declaration stays where it is, with its handle and parameters, and stays
\* defined once it is.
DeclarationsKept ==
    \A name \in DOMAIN lookup_function :
        /\ name \in DOMAIN lookup_function'
        /\ Len(lookup_function'[name]) >= Len(lookup_function[name])
        /\ \A k \in 1..Len(lookup_function[name]) :
              /\ lookup_function'[name][k].handle = lookup_function[name][k].handle
              /\ lookup_function'[name][k].parameters = lookup_function[name][k].parameters
              /\ lookup_function[name][k].defined => lookup_function'[name][k].defined

\* add_function on a declaration that is a prototype only.
PrototypeCompleted ==
    ( /\ ret'.op = "add_function"
      /\ ret'.name \notin DOMAIN entry_points
      /\ Registered # 0
      /\ ~Overloads(ret'.name)[Registered].defined )
    => /\ ret'.status = "Ok"
       /\ ret'.handle = Overloads(ret'.name)[Registered].handle
       /\ lookup_function'[ret'.name][Registered].defined
       /\ Len(lookup_function'[ret'.name]) = Len(Overloads(ret'.name))
       /\ Len(functions') = Len(functions)
       /\ \A h \in 1..Len(functions) : h # ret'.handle => functions'[h] = functions[h]
       /\ \A name \in DOMAIN lookup_function :
             name # ret'.name => lookup_function'[name] = lookup_function[name]

\* add_function or add_prototype on parameter types the overload set does
\* not hold.
DeclarationAppended ==
    ( /\ ret'.op \in {"add_function", "add_prototype"}
      /\ ret'.name \notin DOMAIN entry_points
      /\ Registered = 0 )
    => /\ ret'.status = "Ok"
       /\ functions' # functions
       /\ Len(functions') = Len(functions) + 1
       /\ SubSeq(functions', 1, Len(functions)) = functions
       /\ Len(lookup_function'[ret'.name]) = Len(Overloads(ret'.name)) + 1
       /\ LET decl == lookup_function'[ret'.name][Len(lookup_function'[ret'.name])] IN
          /\ decl.handle = Len(functions')
          /\ decl.parameters = ret'.parameters
          /\ decl.defined = (ret'.op = "add_function")
          /\ ret'.op = "add_function" => ret'.handle = decl.handle
       /\ \A name \in DOMAIN lookup_function :
             name # ret'.name => lookup_function'[name] = lookup_function[name]

\* C19: over any sequence of add_prototype and add_function calls for
\* non-entry names, a declaration is never removed, its handle never changes
\* and its defined flag never goes back to false; add_function on a prototype
\* replaces the placeholder in place, sets defined, returns the prototype's
\* handle and appends nothing; a registration of parameter types not yet in
\* the overload set appends exactly one function and one declaration.
C19_DeclarationLifecycle ==
    [][DeclarationsKept /\ PrototypeCompleted /\ DeclarationAppended]_vars

\* C19 witness: a definition has completed the prototype that stands second
\* in an overload set of three, and got the prototype's handle.
C19_Witness ==
    /\ ret.op = "add_function"
    /\ ret.status = "Ok"
    /\ Len(Overloads(ret.name)) = 3
    /\ Len(functions) = 3
    /\ ret.handle = Overloads(ret.name)[2].handle
    /\ IdenticalTypes(Overloads(ret.name)[2].parameters, ret.parameters)
    /\ Overloads(ret.name)[2].defined
    /\ ~Overloads(ret.name)[3].defined

\* ------------------------------------------------------------------ claims: result of a call
\* C21: every declaration's void flag agrees with the function under its
\* handle (void iff the function has no result type), also after a definition
\* has completed a prototype, and the Call statement of a lowered call has a
\* result expression exactly when the function called returns a value.
C21_VoidAgreesWithFunction ==
    /\ \A name \in DOMAIN lookup_function :
          \A k \in 1..Len(lookup_function[name]) :
             lookup_function[name][k].void
                <=> functions[lookup_function[name][k].handle].result = None
    /\ UserCall =>
          (NewBody[CallAt].result # None <=> functions[ret.function].result # None)

\* ------------------------------------------------------------------ claims: usage table
\* C22: while functions are registered the usage table has one vector per
\* function of the arena, and in the pass of add_entry_points the table it
\* took over has one per function, so the function walked, every function
\* called in a body and every entry function index it in bounds.
C22_OneVectorPerFunction ==
    /\ pc = "registering" => Len(function_arg_use) = Len(functions)
    /\ pc = "propagating" =>
          /\ Len(walk.use) = Len(functions)
          /\ walk.stmts # <<>> => walk.handle \in 1..Len(walk.use)
          /\ \A f \in 1..Len(functions) : Callees(f) \subseteq 1..Len(walk.use)
          /\ \A k \in 1..Len(entries) : entries[k][3] \in 1..Len(walk.use)

\* C22 witness: the pass has processed a call in a module of three functions
\* with an entry function and a prototype never defined.
C22_Witness ==
    /\ pc = "propagating"
    /\ walk.caller # None
    /\ Len(functions) = 3
    /\ entries # <<>>
    /\ \E name \in DOMAIN lookup_function :
          \E k \in 1..Len(lookup_function[name]) : ~lookup_function[name][k].defined

\* ------------------------------------------------------------------ claims: matrix constructor
\* C23: the constructor of a matrix of C columns and R rows from one matrix
\* returns a composition of exactly C components, component i a swizzle of
\* size R over column i of the source, and reads no column of the source at
\* or beyond the source's column count.
C23_MatrixFromMatrix ==
    ( /\ Lowered
      /\ ret.fc.kind = "TypeConstructor"
      /\ Len(ret.parameters) = 1
      /\ types[ret.fc.ty].tag = "Matrix"
      /\ ArgumentType(1).tag = "Matrix" )
    => /\ ret.status = "Ok"
       /\ ctx.expressions[ret.handle].kind = "Compose"
       /\ ctx.expressions[ret.handle].ty = ret.fc.ty
       /\ Len(ctx.expressions[ret.handle].components) = types[ret.fc.ty].columns
       /\ \A i \in 1..Len(ctx.expressions[ret.handle].components) :
             LET column == ctx.expressions[ctx.expressions[ret.handle].components[i]] IN
             /\ column.kind = "Swizzle"
             /\ column.size = types[ret.fc.ty].rows
             /\ ctx.expressions[column.vector].kind = "AccessIndex"
             /\ ctx.expressions[column.vector].base = Argument(1)
             /\ ctx.expressions[column.vector].index = i - 1
             /\ ctx.expressions[column.vector].index < ArgumentType(1).columns

====
